---- MODULE Spec2Model ----
(***************************************************************************)
(* State-machine model of the LSP JSON-RPC client of lspmux-cc             *)
(* (mcp-server/src/lsp_client.rs): client construction and handshake, the  *)
(* request()/send_message() steps of every caller task, and the reader     *)
(* task with its exit sequence.                                            *)
(*                                                                         *)
(* Every critical section of the pending-map mutex contains no await, so   *)
(* it is one atomic step.  The stdin mutex is held across three awaits     *)
(* (header write, body write, flush), so its acquisition and each write    *)
(* are separate steps.                                                     *)
(***************************************************************************)
EXTENDS Integers, Sequences, FiniteSets, TLC

\* Largest request id the model lets request() allocate.
MaxId == 3

\* AtomicI64::new(1)
FirstId == 1

\* Caller tasks that share the client once the constructor has returned it.
Callers == {"c1", "c2"}

\* The task running new_with_env().
Ctor == "ctor"

Tasks == Callers \cup {Ctor}

\* Payload of an incoming message with an id: a result that deserializes,
\* a result that does not, an error member, neither member, or both.
Kinds == {"ok", "bad", "error", "absent", "both"}

NoMsg == [id |-> 0, kind |-> "none"]

NoDisp == [id |-> 0, to |-> "none"]

\* Parameters of a message that names no document.
NoArg == [path |-> <<>>, version |-> -1, text |-> ""]

\* workspace_root: None, an absolute path, a relative path.
NoRoot == [some |-> FALSE, path |-> <<>>]

Roots == {NoRoot,
          [some |-> TRUE, path |-> <<"/", "w">>],
          [some |-> TRUE, path |-> <<"w">>]}

VARIABLES
    ctor,        \* position of new_with_env()
    child,       \* the sidecar process: "none", "running", "killed"
    reader,      \* position of the spawned reader task
    readerResult,\* how reader_loop returned: "none", "eof", "err"
    alive,       \* the AtomicBool liveness flag
    next_id,     \* the AtomicI64 counter
    pending,     \* the pending map: id -> task owning the paired receiver
    stdinLock,   \* holder of the child_stdin mutex, or "free"
    stdinOpen,   \* FALSE once writes to the pipe fail
    wire,        \* chunks written to the sidecar's stdin, in order
    pc,          \* per task: position inside request()/notify()/send_message()
    op,          \* per task: the message being sent
    id,          \* per task: the id request() allocated
    rx,          \* per task: the oneshot receiver of the current request
    outcome,     \* per task: how the last request() returned
    deadAtStart, \* per task: the flag was already false when request() began
    issued,      \* ids in the order fetch_add handed them out
    lastDisp,    \* what the reader did with the message it read in the
                 \* step just taken; NoDisp after a step of any other kind
    arg,         \* per task: parameters of the notification being sent
    opened,      \* opened_files: path -> (version, content hash)
    disk,        \* per path: the file's current content on disk
    doc,         \* per task: path and content ensure_file_open() works on
    syncRes,     \* per task: how the last ensure_file_open() returned
    syncCalled,  \* paths ensure_file_open() has been called for
    syncLog,     \* what each pass through the opened_files section decided
    nsync,       \* number of ensure_file_open() calls begun
    nedits,      \* number of edits made to the files on disk
    shut,        \* position of shutdown()
    shutTrace,   \* what the current shutdown() call has done so far
    shutDead,    \* the flag was already false when shutdown() began
    nshut,       \* number of shutdown() calls begun
    killIssued,  \* child.kill() has been called
    inp,         \* the bytes the sidecar writes to its stdout, all of them
    src,         \* the pieces inp was put together from
    rpos,        \* reader_loop: bytes of inp consumed so far
    rstage,      \* reader_loop: reading "headers" or a "body", or at the
                 \* pending map ("dispatch") with the message it has read
    rlen,        \* reader_loop: content_length, -1 for None
    ralloc,      \* reader_loop: bytes allocated for message bodies so far
    got,         \* reader_loop: bodies read and the messages parsed from them
    upath,       \* file_uri: the path given, as bytes
    uuri,        \* file_uri: the result, an error or the bytes of the URI
    uback,       \* uri_to_path: the path extracted from the URI
    ustage,      \* "input", then "encoded" or "rejected", then "decoded"
    fbuild,      \* report: overflow checks of the build, "on" or "off"
    fpos,        \* report: the zero-indexed (line, character) on the wire
    fout,        \* report: what was printed for it
    fstage,      \* report: "input", then "printed"
    tool,        \* per task: the tool operation it runs
    tpath,       \* per task: file_path of the tool call
    tstage,      \* per task: position inside the tool operation
    tres,        \* per task: how the last tool call ended
    tmark,       \* per task: length of the wire when its tool call began
    ntool,       \* number of tool calls begun
    holder,      \* locks: for each mutex of the client, the task holding it
    lop,         \* locks: the operation of the client each task is in
    lcall,       \* locks: whether the task is inside request() or notify()
    lpc          \* locks: each task's position with respect to the locks

vars == <<ctor, child, reader, readerResult, alive, next_id, pending,
          stdinLock, stdinOpen, wire, pc, op, id, rx, outcome, deadAtStart,
          issued, lastDisp, arg, opened, disk, doc, syncRes, syncCalled,
          syncLog, nsync, nedits, shut, shutTrace, shutDead, nshut, killIssued,
          inp, src, rpos, rstage, rlen, ralloc, got,
          upath, uuri, uback, ustage, fbuild, fpos, fout, fstage,
          tool, tpath, tstage, tres, tmark, ntool,
          holder, lop, lcall, lpc>>

\* State of ensure_file_open().
syncVars == <<arg, opened, disk, doc, syncRes, syncCalled, syncLog, nsync, nedits>>

\* State of shutdown().
shutVars == <<shut, shutTrace, shutDead, nshut, killIssued>>

\* State of reader_loop() at the level of bytes.
frameVars == <<inp, src, rpos, rstage, rlen, ralloc, got>>

\* State of the URI functions.
uriVars == <<upath, uuri, uback, ustage>>

\* State of the position formatting of the tool reports.
fmtVars == <<fbuild, fpos, fout, fstage>>

\* State of the tool operations.
toolVars == <<tool, tpath, tstage, tres, tmark, ntool>>

\* What the actions of the client at the level of messages leave alone.
\* State of the locking discipline.
lockVars == <<holder, lop, lcall, lpc>>

restVars == <<frameVars, uriVars, fmtVars, toolVars, lockVars>>

----------------------------------------------------------------------------
\* Helpers

IsAbsolute(path) == Len(path) > 0 /\ path[1] = "/"

\* workspace_root.map(file_uri).transpose(): None is fine, Some(p) needs an
\* absolute p.
RootUriOk(r) == ~r.some \/ IsAbsolute(r.path)

\* The tool operations and the method of the request each one issues.
Tools == {"diagnostics", "hover", "goto_definition", "find_references"}

ToolMethod(tl) ==
    CASE tl = "diagnostics" -> "textDocument/diagnostic"
      [] tl = "hover" -> "textDocument/hover"
      [] tl = "goto_definition" -> "textDocument/definition"
      [] tl = "find_references" -> "textDocument/references"

IsRequestOp(o) ==
    o \in {"initialize", "query", "shutdown"} \cup {ToolMethod(tl) : tl \in Tools}

EmptyRx == [st |-> "empty", msg |-> NoMsg]

NoRx == [st |-> "none", msg |-> NoMsg]

\* Dropping a oneshot sender: a receiver still waiting observes RecvError.
DropSender(rxf, owner) ==
    IF rxf[owner].st = "empty"
    THEN [rxf EXCEPT ![owner] = [st |-> "closed", msg |-> NoMsg]]
    ELSE rxf

\* Dropping a oneshot receiver.
DropReceiver(rxf, t) == [rxf EXCEPT ![t] = [st |-> "dropped", msg |-> NoMsg]]

MapRemove(m, k) == [x \in (DOMAIN m) \ {k} |-> m[x]]

MapInsert(m, k, v) == [x \in (DOMAIN m) \cup {k} |-> IF x = k THEN v ELSE m[x]]

EmptyMap == [x \in {} |-> Ctor]

Chunk(part, t) == [part |-> part, id |-> IF IsRequestOp(op[t]) THEN id[t] ELSE 0,
                   op |-> op[t], by |-> t, arg |-> arg[t]]

----------------------------------------------------------------------------
\* Files ensure_file_open() is called for.
Paths == {<<"/", "a">>, <<"/", "b">>}

\* File contents: the text before and after an edit.
Contents == {"x", "y"}

\* The content every file starts with.
FirstContent == "x"

\* Mutant of ContentHash: every content has the same fingerprint.
ContentHashConst(text) == 0

\* DefaultHasher over the content: equal texts give equal fingerprints and
\* the texts of the model give different ones.
ContentHash(text) == CASE text = "x" -> 11
                       [] text = "y" -> 23
                       [] OTHER -> 0

NoDoc == [path |-> <<>>, text |-> ""]

NoRecord == [x \in {} |-> [version |-> 0, hash |-> 0]]

\* No ensure_file_open() and no shutdown() call has been made.
InitSync ==
    /\ arg = [t \in Tasks |-> NoArg]
    /\ opened = NoRecord
    /\ disk = [p \in Paths |-> FirstContent]
    /\ doc = [t \in Tasks |-> NoDoc]
    /\ syncRes = [t \in Tasks |-> "none"]
    /\ syncCalled = {}
    /\ syncLog = <<>>
    /\ nsync = 0
    /\ nedits = 0

\* No byte of the sidecar's output is modelled.
InitFrame ==
    /\ inp = <<>>
    /\ src = <<>>
    /\ rpos = 0
    /\ rstage = "headers"
    /\ rlen = -1
    /\ ralloc = 0
    /\ got = <<>>

\* A 32-bit unsigned number, as its two 16-bit halves.
U32(hi, lo) == [hi |-> hi, lo |-> lo]

\* No URI function has been applied.
InitUri ==
    /\ upath = <<>>
    /\ uuri = [ok |-> FALSE, bytes |-> <<>>]
    /\ uback = <<>>
    /\ ustage = "input"

\* No position has been formatted.
InitFmt ==
    /\ fbuild = "on"
    /\ fpos = [line |-> U32(0, 0), character |-> U32(0, 0)]
    /\ fout = [form |-> "none", panic |-> FALSE, line |-> <<>>,
               character |-> <<>>]
    /\ fstage = "input"

\* No tool operation runs.
InitTool ==
    /\ tool = [t \in Tasks |-> "none"]
    /\ tpath = [t \in Tasks |-> <<>>]
    /\ tstage = [t \in Tasks |-> "none"]
    /\ tres = [t \in Tasks |-> "none"]
    /\ tmark = [t \in Tasks |-> 0]
    /\ ntool = 0

\* The mutexes of LspClient.
Locks == {"pending", "child_stdin", "opened_files", "child"}

\* The reader task.
Reader == "reader"

\* The tasks that take locks.
LockTasks == Tasks \cup {Reader}

\* Every lock is free and no operation is under way; the reader reads.
InitLock ==
    /\ holder = [l \in Locks |-> "free"]
    /\ lop = [t \in LockTasks |-> "none"]
    /\ lcall = [t \in LockTasks |-> "none"]
    /\ lpc = [t \in LockTasks |-> IF t = Reader THEN "read" ELSE "idle"]

InitRest == InitFrame /\ InitUri /\ InitFmt /\ InitTool /\ InitLock

InitShut ==
    /\ shut = "idle"
    /\ shutTrace = <<>>
    /\ shutDead = FALSE
    /\ nshut = 0
    /\ killIssued = FALSE

Init ==
    /\ ctor = "start"
    /\ child = "none"
    /\ reader = "none"
    /\ readerResult = "none"
    /\ alive = TRUE
    /\ next_id = FirstId
    /\ pending = EmptyMap
    /\ stdinLock = "free"
    /\ stdinOpen = TRUE
    /\ wire = <<>>
    /\ pc = [t \in Tasks |-> "idle"]
    /\ op = [t \in Tasks |-> "none"]
    /\ id = [t \in Tasks |-> 0]
    /\ rx = [t \in Tasks |-> NoRx]
    /\ outcome = [t \in Tasks |-> "none"]
    /\ deadAtStart = [t \in Tasks |-> FALSE]
    /\ issued = <<>>
    /\ lastDisp = NoDisp
    /\ InitSync
    /\ InitShut
    /\ InitRest

----------------------------------------------------------------------------
\* new_with_env()

\* cmd.spawn() succeeds: the sidecar runs with piped stdin/stdout.
CtorSpawn ==
    /\ ctor = "start"
    /\ ctor' = "spawned"
    /\ child' = "running"
    /\ lastDisp' = NoDisp
    /\ UNCHANGED <<syncVars, shutVars, restVars>>
    /\ UNCHANGED <<reader, readerResult, alive, next_id, pending, stdinLock,
                   stdinOpen, wire, pc, op, id, rx, outcome, deadAtStart,
                   issued>>

\* cmd.spawn() fails: "failed to spawn lspmux client", no process exists.
CtorSpawnFail ==
    /\ ctor = "start"
    /\ ctor' = "failed"
    /\ lastDisp' = NoDisp
    /\ UNCHANGED <<syncVars, shutVars, restVars>>
    /\ UNCHANGED <<child, reader, readerResult, alive, next_id, pending,
                   stdinLock, stdinOpen, wire, pc, op, id, rx, outcome,
                   deadAtStart, issued>>

\* The pipes are taken, the shared state is created, the reader task is
\* spawned and the client value is built (next_id = 1, alive = true).
CtorStartReader ==
    /\ ctor = "spawned"
    /\ ctor' = "built"
    /\ reader' = "loop"
    /\ alive' = TRUE
    /\ next_id' = FirstId
    /\ pending' = EmptyMap
    /\ lastDisp' = NoDisp
    /\ UNCHANGED <<syncVars, shutVars, restVars>>
    /\ UNCHANGED <<child, readerResult, stdinLock, stdinOpen, wire, pc, op, id,
                   rx, outcome, deadAtStart, issued>>

\* An Err leaves new_with_env() through `?`: the client value (when built) is
\* dropped.  The Command never set kill_on_drop and no kill() is called, so
\* the process handle is released without touching the process.
CtorFail ==
    /\ ctor' = "failed"
    /\ child' = child

\* root_uri = workspace_root.map(file_uri).transpose()?
CtorRootUri ==
    /\ ctor = "built"
    /\ \E r \in Roots :
         IF RootUriOk(r) THEN ctor' = "initialize" /\ child' = child
                         ELSE CtorFail
    /\ lastDisp' = NoDisp
    /\ UNCHANGED <<syncVars, shutVars, restVars>>
    /\ UNCHANGED <<reader, readerResult, alive, next_id, pending, stdinLock,
                   stdinOpen, wire, pc, op, id, rx, outcome, deadAtStart,
                   issued>>

\* Mutant of CtorInitDone: the result of the initialize request is not
\* looked at before "initialized" is sent.
CtorInitDoneUnchecked ==
    /\ ctor = "initialize"
    /\ pc[Ctor] = "done"
    /\ ctor' = "notify"
    /\ child' = child
    /\ pc' = [pc EXCEPT ![Ctor] = "send_check"]
    /\ op' = [op EXCEPT ![Ctor] = "initialized"]
    /\ lastDisp' = NoDisp
    /\ UNCHANGED <<syncVars, shutVars, restVars>>
    /\ UNCHANGED <<reader, readerResult, alive, next_id, pending, stdinLock,
                   stdinOpen, wire, id, rx, outcome, deadAtStart, issued>>

\* client.request::<Initialize>(..).await returned: on Ok go on to notify
\* "initialized", on Err fail with "LSP initialize failed".
CtorInitDone ==
    /\ ctor = "initialize"
    /\ pc[Ctor] = "done"
    /\ IF outcome[Ctor] = "ok"
       THEN /\ ctor' = "notify"
            /\ child' = child
            /\ pc' = [pc EXCEPT ![Ctor] = "send_check"]
            /\ op' = [op EXCEPT ![Ctor] = "initialized"]
       ELSE /\ CtorFail
            /\ UNCHANGED <<pc, op>>
    /\ lastDisp' = NoDisp
    /\ UNCHANGED <<syncVars, shutVars, restVars>>
    /\ UNCHANGED <<reader, readerResult, alive, next_id, pending, stdinLock,
                   stdinOpen, wire, id, rx, outcome, deadAtStart, issued>>

\* Mutant of CtorNotifyDone: the client is returned whatever notify() said.
CtorNotifyDoneIgnoresErr ==
    /\ ctor = "notify"
    /\ pc[Ctor] \in {"notify_ok", "notify_err"}
    /\ ctor' = "returned"
    /\ child' = child
    /\ pc' = [pc EXCEPT ![Ctor] = "idle"]
    /\ lastDisp' = NoDisp
    /\ UNCHANGED <<syncVars, shutVars, restVars>>
    /\ UNCHANGED <<reader, readerResult, alive, next_id, pending, stdinLock,
                   stdinOpen, wire, op, id, rx, outcome, deadAtStart, issued>>

\* client.notify("initialized", ..).await returned: Ok(client) on success.
CtorNotifyDone ==
    /\ ctor = "notify"
    /\ pc[Ctor] \in {"notify_ok", "notify_err"}
    /\ IF pc[Ctor] = "notify_ok"
       THEN ctor' = "returned" /\ child' = child
       ELSE CtorFail
    /\ pc' = [pc EXCEPT ![Ctor] = "idle"]
    /\ lastDisp' = NoDisp
    /\ UNCHANGED <<syncVars, shutVars, restVars>>
    /\ UNCHANGED <<reader, readerResult, alive, next_id, pending, stdinLock,
                   stdinOpen, wire, op, id, rx, outcome, deadAtStart, issued>>

----------------------------------------------------------------------------
\* request()

\* Mutant of FetchAddNext: the counter is read but not advanced.
FetchAddNextStuck(v) == v

\* The counter value fetch_add(1) leaves behind.
FetchAddNext(v) == v + 1

\* A task may enter request(): the main task for the initialize request of
\* the constructor and for the shutdown request of shutdown(), a caller only
\* once it holds the client the constructor returned.
MayRequest(t) ==
    IF t = Ctor THEN (ctor = "initialize" \/ shut = "request") /\ pc[t] = "idle"
                ELSE ctor = "returned" /\ pc[t] \in {"idle", "done"}

\* The method of the request a task sends.
RequestOp(t) ==
    IF t = Ctor THEN (IF shut = "request" THEN "shutdown" ELSE "initialize")
                ELSE IF tool[t] \in Tools THEN ToolMethod(tool[t]) ELSE "query"

\* let id = self.next_id.fetch_add(1, Relaxed); the message is built.
ReqAlloc(t) ==
    /\ MayRequest(t)
    /\ next_id <= MaxId
    /\ id' = [id EXCEPT ![t] = next_id]
    /\ next_id' = FetchAddNext(next_id)
    /\ issued' = Append(issued, next_id)
    /\ op' = [op EXCEPT ![t] = RequestOp(t)]
    /\ pc' = [pc EXCEPT ![t] = "insert"]
    /\ rx' = [rx EXCEPT ![t] = NoRx]
    /\ outcome' = [outcome EXCEPT ![t] = "none"]
    /\ deadAtStart' = [deadAtStart EXCEPT ![t] = ~alive]
    /\ lastDisp' = NoDisp
    /\ UNCHANGED <<syncVars, shutVars, restVars>>
    /\ UNCHANGED <<ctor, child, reader, readerResult, alive, pending, stdinLock,
                   stdinOpen, wire>>

\* Mutant of ReqInsert: the channel is made and the sender is not stored.
ReqInsertSkipsMap(t) ==
    /\ pc[t] = "insert"
    /\ pending' = pending
    /\ rx' = [rx EXCEPT ![t] = EmptyRx]
    /\ pc' = [pc EXCEPT ![t] = "send_check"]
    /\ lastDisp' = NoDisp
    /\ UNCHANGED <<syncVars, shutVars, restVars>>
    /\ UNCHANGED <<ctor, child, reader, readerResult, alive, next_id, stdinLock,
                   stdinOpen, wire, op, id, outcome, deadAtStart, issued>>

\* let (tx, rx) = oneshot::channel(); pending.lock().await.insert(id, tx);
\* a sender already stored under the key is replaced and dropped.
ReqInsert(t) ==
    /\ pc[t] = "insert"
    /\ pending' = MapInsert(pending, id[t], t)
    /\ rx' = LET closed == IF id[t] \in DOMAIN pending /\ pending[id[t]] # t
                           THEN DropSender(rx, pending[id[t]])
                           ELSE rx
             IN [closed EXCEPT ![t] = EmptyRx]
    /\ pc' = [pc EXCEPT ![t] = "send_check"]
    /\ lastDisp' = NoDisp
    /\ UNCHANGED <<syncVars, shutVars, restVars>>
    /\ UNCHANGED <<ctor, child, reader, readerResult, alive, next_id, stdinLock,
                   stdinOpen, wire, op, id, outcome, deadAtStart, issued>>

----------------------------------------------------------------------------
\* send_message(), called by request() and by notify()

\* Mutant of SendReturns: request() returns the send error at once and
\* leaves its pending entry behind.
SendReturnsNoCleanup(t, ok) ==
    /\ pc' = [pc EXCEPT ![t] =
                IF IsRequestOp(op[t])
                THEN (IF ok THEN "await" ELSE "done")
                ELSE (IF ok THEN "notify_ok" ELSE "notify_err")]
    /\ outcome' = IF IsRequestOp(op[t]) /\ ~ok
                  THEN [outcome EXCEPT ![t] = "send_err"]
                  ELSE outcome

\* send_message() returned to its caller: request() goes on to await the
\* response or to abandon its entry, notify() hands the result back.
SendReturns(t, ok) ==
    /\ pc' = [pc EXCEPT ![t] =
                IF IsRequestOp(op[t])
                THEN (IF ok THEN "await" ELSE "abandon")
                ELSE (IF ok THEN "notify_ok" ELSE "notify_err")]
    /\ outcome' = IF IsRequestOp(op[t]) /\ ~ok
                  THEN [outcome EXCEPT ![t] = "send_err"]
                  ELSE outcome

\* Mutant of SendCheckAlive: the liveness flag is not consulted.
SendCheckAliveSkipped(t) ==
    /\ pc[t] = "send_check"
    /\ pc' = [pc EXCEPT ![t] = "send_lock"]
    /\ lastDisp' = NoDisp
    /\ UNCHANGED <<syncVars, shutVars, restVars>>
    /\ UNCHANGED <<ctor, child, reader, readerResult, alive, next_id, pending,
                   stdinLock, stdinOpen, wire, op, id, rx, outcome,
                   deadAtStart, issued>>

\* if !self.alive.load(Acquire) { bail!(..) }
SendCheckAlive(t) ==
    /\ pc[t] = "send_check"
    /\ IF alive
       THEN pc' = [pc EXCEPT ![t] = "send_lock"] /\ outcome' = outcome
       ELSE SendReturns(t, FALSE)
    /\ lastDisp' = NoDisp
    /\ UNCHANGED <<syncVars, shutVars, restVars>>
    /\ UNCHANGED <<ctor, child, reader, readerResult, alive, next_id, pending,
                   stdinLock, stdinOpen, wire, op, id, rx, deadAtStart, issued>>

\* Mutant of SendLock: the writer does not wait for the guard to be free.
SendLockNoMutex(t) ==
    /\ pc[t] = "send_lock"
    /\ stdinLock' = t
    /\ pc' = [pc EXCEPT ![t] = "send_hdr"]
    /\ lastDisp' = NoDisp
    /\ UNCHANGED <<syncVars, shutVars, restVars>>
    /\ UNCHANGED <<ctor, child, reader, readerResult, alive, next_id, pending,
                   stdinOpen, wire, op, id, rx, outcome, deadAtStart, issued>>

\* let mut stdin = self.child_stdin.lock().await;
SendLock(t) ==
    /\ pc[t] = "send_lock"
    /\ stdinLock = "free"
    /\ stdinLock' = t
    /\ pc' = [pc EXCEPT ![t] = "send_hdr"]
    /\ lastDisp' = NoDisp
    /\ UNCHANGED <<syncVars, shutVars, restVars>>
    /\ UNCHANGED <<ctor, child, reader, readerResult, alive, next_id, pending,
                   stdinOpen, wire, op, id, rx, outcome, deadAtStart, issued>>

\* One write_all(..).await? under the guard: the bytes reach the pipe, or the
\* write fails and `?` drops the guard on the way out.
SendWrite(t, part, nextpc) ==
    /\ IF stdinOpen
       THEN /\ wire' = Append(wire, Chunk(part, t))
            /\ pc' = [pc EXCEPT ![t] = nextpc]
            /\ UNCHANGED <<stdinLock, outcome>>
       ELSE /\ stdinLock' = "free"
            /\ SendReturns(t, FALSE)
            /\ wire' = wire
    /\ lastDisp' = NoDisp
    /\ UNCHANGED <<syncVars, shutVars, restVars>>
    /\ UNCHANGED <<ctor, child, reader, readerResult, alive, next_id, pending,
                   stdinOpen, op, id, rx, deadAtStart, issued>>

\* stdin.write_all(header.as_bytes()).await?
SendHeader(t) ==
    /\ pc[t] = "send_hdr"
    /\ SendWrite(t, "hdr", "send_body")

\* stdin.write_all(body.as_bytes()).await?
SendBody(t) ==
    /\ pc[t] = "send_body"
    /\ SendWrite(t, "body", "send_flush")

\* stdin.flush().await?; drop(stdin); Ok(())
\* On a broken pipe the flush may or may not report the failure.
SendFlush(t) ==
    /\ pc[t] = "send_flush"
    /\ stdinLock' = "free"
    /\ \/ SendReturns(t, TRUE)
       \/ ~stdinOpen /\ SendReturns(t, FALSE)
    /\ lastDisp' = NoDisp
    /\ UNCHANGED <<syncVars, shutVars, restVars>>
    /\ UNCHANGED <<ctor, child, reader, readerResult, alive, next_id, pending,
                   stdinOpen, wire, op, id, rx, deadAtStart, issued>>

\* The sidecar closes the read end of its stdin (or dies): later writes fail.
StdinBreaks ==
    /\ child = "running"
    /\ stdinOpen
    /\ stdinOpen' = FALSE
    /\ lastDisp' = NoDisp
    /\ UNCHANGED <<syncVars, shutVars, restVars>>
    /\ UNCHANGED <<ctor, child, reader, readerResult, alive, next_id, pending,
                   stdinLock, wire, pc, op, id, rx, outcome, deadAtStart,
                   issued>>

----------------------------------------------------------------------------
\* request(), after the frame was sent

\* response.get("error") is Some(_)
HasError(kind) == kind \in {"error", "both"}

\* response.get("result").cloned().unwrap_or(Value::Null)
ResultMember(kind) ==
    CASE kind \in {"ok", "both"} -> "good"
      [] kind = "bad"            -> "bad"
      [] OTHER                   -> "null"

\* R::Result accepts null: () for Shutdown and Option<_> for the hover,
\* definition and references queries, but not InitializeResult.
NullDeserializes(o) ==
    o \in {"query", "shutdown", "textDocument/hover", "textDocument/definition",
           "textDocument/references"}

\* serde_json::from_value::<R::Result>(result)
Deserialize(o, result) ==
    CASE result = "good" -> "ok"
      [] result = "null" -> (IF NullDeserializes(o) THEN "ok" ELSE "deser_err")
      [] OTHER           -> "deser_err"

\* Mutant of ResponseOutcome: a result member is returned even when the
\* response also carries an error member.
ResponseOutcomeResultFirst(o, kind) ==
    IF kind \in {"ok", "both", "bad"} THEN Deserialize(o, ResultMember(kind))
    ELSE IF HasError(kind) THEN "lsp_error"
    ELSE Deserialize(o, "null")

\* What request() returns for a response: an error member is an Err,
\* otherwise the result member, or null without one, is deserialized.
ResponseOutcome(o, kind) ==
    IF HasError(kind) THEN "lsp_error"
    ELSE Deserialize(o, ResultMember(kind))

\* timeout(LSP_REQUEST_TIMEOUT, rx).await = Ok(Ok(response))
AwaitResponse(t) ==
    /\ pc[t] = "await"
    /\ rx[t].st = "full"
    /\ outcome' = [outcome EXCEPT ![t] = ResponseOutcome(op[t], rx[t].msg.kind)]
    /\ pc' = [pc EXCEPT ![t] = "done"]
    /\ lastDisp' = NoDisp
    /\ UNCHANGED <<syncVars, shutVars, restVars>>
    /\ UNCHANGED <<ctor, child, reader, readerResult, alive, next_id, pending,
                   stdinLock, stdinOpen, wire, op, id, rx, deadAtStart, issued>>

\* timeout(..).await = Ok(Err(_)): the sender was dropped.
AwaitClosed(t) ==
    /\ pc[t] = "await"
    /\ rx[t].st = "closed"
    /\ outcome' = [outcome EXCEPT ![t] = "closed"]
    /\ rx' = DropReceiver(rx, t)
    /\ pc' = [pc EXCEPT ![t] = "abandon"]
    /\ lastDisp' = NoDisp
    /\ UNCHANGED <<syncVars, shutVars, restVars>>
    /\ UNCHANGED <<ctor, child, reader, readerResult, alive, next_id, pending,
                   stdinLock, stdinOpen, wire, op, id, deadAtStart, issued>>

\* timeout(..).await = Err(_): nothing arrived in time; the timeout future,
\* and the receiver it owns, are dropped.
AwaitTimeout(t) ==
    /\ pc[t] = "await"
    /\ rx[t].st = "empty"
    /\ outcome' = [outcome EXCEPT ![t] = "timeout"]
    /\ rx' = DropReceiver(rx, t)
    /\ pc' = [pc EXCEPT ![t] = "abandon"]
    /\ lastDisp' = NoDisp
    /\ UNCHANGED <<syncVars, shutVars, restVars>>
    /\ UNCHANGED <<ctor, child, reader, readerResult, alive, next_id, pending,
                   stdinLock, stdinOpen, wire, op, id, deadAtStart, issued>>

\* Every sender held for the given owners is dropped.
RECURSIVE DropSenders(_, _)
DropSenders(rxf, owners) ==
    IF owners = {} THEN rxf
    ELSE LET o == CHOOSE x \in owners : TRUE
         IN DropSenders(DropSender(rxf, o), owners \ {o})

\* Mutant of ReqAbandon: the failing request clears the whole pending map.
ReqAbandonClearsAll(t) ==
    /\ pc[t] = "abandon"
    /\ pending' = EmptyMap
    /\ rx' = DropReceiver(DropSenders(rx, {pending[k] : k \in DOMAIN pending}), t)
    /\ pc' = [pc EXCEPT ![t] = "done"]
    /\ lastDisp' = NoDisp
    /\ UNCHANGED <<syncVars, shutVars, restVars>>
    /\ UNCHANGED <<ctor, child, reader, readerResult, alive, next_id, stdinLock,
                   stdinOpen, wire, op, id, outcome, deadAtStart, issued>>

\* Mutant of ReqAbandon: the Err is returned without removing the entry.
ReqAbandonNoRemove(t) ==
    /\ pc[t] = "abandon"
    /\ rx' = DropReceiver(rx, t)
    /\ pc' = [pc EXCEPT ![t] = "done"]
    /\ lastDisp' = NoDisp
    /\ UNCHANGED <<syncVars, shutVars, restVars>>
    /\ UNCHANGED <<ctor, child, reader, readerResult, alive, next_id, pending,
                   stdinLock, stdinOpen, wire, op, id, outcome, deadAtStart,
                   issued>>

\* self.pending.lock().await.remove(&id); then the Err is returned.  The
\* removed sender and the task's own receiver are dropped.
ReqAbandon(t) ==
    /\ pc[t] = "abandon"
    /\ pending' = MapRemove(pending, id[t])
    /\ rx' = LET closed == IF id[t] \in DOMAIN pending
                           THEN DropSender(rx, pending[id[t]])
                           ELSE rx
             IN DropReceiver(closed, t)
    /\ pc' = [pc EXCEPT ![t] = "done"]
    /\ lastDisp' = NoDisp
    /\ UNCHANGED <<syncVars, shutVars, restVars>>
    /\ UNCHANGED <<ctor, child, reader, readerResult, alive, next_id, stdinLock,
                   stdinOpen, wire, op, id, outcome, deadAtStart, issued>>

----------------------------------------------------------------------------
\* The reader task

\* Mutant of Dispatch: the message goes to the oldest waiter (FIFO order)
\* instead of the waiter registered under its id.
DispatchFifo(k, kind) ==
    IF DOMAIN pending # {}
    THEN LET f == CHOOSE x \in DOMAIN pending : \A y \in DOMAIN pending : x <= y
             o == pending[f] IN
         /\ pending' = MapRemove(pending, f)
         /\ IF rx[o].st = "empty"
            THEN /\ rx' = [rx EXCEPT ![o] =
                              [st |-> "full", msg |-> [id |-> k, kind |-> kind]]]
                 /\ lastDisp' = [id |-> k, to |-> o]
            ELSE /\ rx' = rx
                 /\ lastDisp' = [id |-> k, to |-> "gone"]
    ELSE /\ lastDisp' = [id |-> k, to |-> "unmatched"]
         /\ UNCHANGED <<pending, rx>>

\* Mutant of Dispatch: the sender is looked up and used, and its entry is
\* left in the map.
DispatchKeepsEntry(k, kind) ==
    IF k \in DOMAIN pending
    THEN LET o == pending[k] IN
         /\ pending' = pending
         /\ IF rx[o].st = "empty"
            THEN /\ rx' = [rx EXCEPT ![o] =
                              [st |-> "full", msg |-> [id |-> k, kind |-> kind]]]
                 /\ lastDisp' = [id |-> k, to |-> o]
            ELSE /\ rx' = rx
                 /\ lastDisp' = [id |-> k, to |-> "gone"]
    ELSE /\ lastDisp' = [id |-> k, to |-> "unmatched"]
         /\ UNCHANGED <<pending, rx>>

\* A message with integer id k was read: map.remove(&id), and the message is
\* sent into the removed sender; tx.send fails silently when the receiver is
\* gone.  Without an entry the message is logged as unknown and discarded.
Dispatch(k, kind) ==
    IF k \in DOMAIN pending
    THEN LET o == pending[k] IN
         /\ pending' = MapRemove(pending, k)
         /\ IF rx[o].st = "empty"
            THEN /\ rx' = [rx EXCEPT ![o] =
                              [st |-> "full", msg |-> [id |-> k, kind |-> kind]]]
                 /\ lastDisp' = [id |-> k, to |-> o]
            ELSE /\ rx' = rx
                 /\ lastDisp' = [id |-> k, to |-> "gone"]
    ELSE /\ lastDisp' = [id |-> k, to |-> "unmatched"]
         /\ UNCHANGED <<pending, rx>>

\* reader_loop reads one frame carrying an integer id.
ReaderResponse ==
    /\ reader = "loop"
    /\ \E k \in 1..MaxId, kind \in Kinds : Dispatch(k, kind)
    /\ UNCHANGED <<syncVars, shutVars, restVars>>
    /\ UNCHANGED <<ctor, child, reader, readerResult, alive, next_id, stdinLock,
                   stdinOpen, wire, pc, op, id, outcome, deadAtStart, issued>>

\* reader_loop reads one frame without an integer id: logged, discarded.
ReaderNotification ==
    /\ reader = "loop"
    /\ lastDisp' = [id |-> 0, to |-> "notification"]
    /\ UNCHANGED <<syncVars, shutVars, restVars>>
    /\ UNCHANGED <<ctor, child, reader, readerResult, alive, next_id, pending,
                   stdinLock, stdinOpen, wire, pc, op, id, rx, outcome,
                   deadAtStart, issued>>

\* reader_loop returns r: Ok(()) at end of stream, Err on an I/O or framing
\* error.
ReaderReturns(r) ==
    /\ reader = "loop"
    /\ reader' = "exited"
    /\ readerResult' = r
    /\ lastDisp' = NoDisp
    /\ UNCHANGED <<syncVars, shutVars, restVars>>
    /\ UNCHANGED <<ctor, child, alive, next_id, pending, stdinLock, stdinOpen,
                   wire, pc, op, id, rx, outcome, deadAtStart, issued>>

ReaderEof == ReaderReturns("eof")

ReaderError == ReaderReturns("err")

\* Mutant of ReaderStoreDead: the exit path forgets to clear the flag.
ReaderStoreDeadSkipped ==
    /\ reader = "exited"
    /\ reader' = "flagged"
    /\ lastDisp' = NoDisp
    /\ UNCHANGED <<syncVars, shutVars, restVars>>
    /\ UNCHANGED <<ctor, child, readerResult, alive, next_id, pending,
                   stdinLock, stdinOpen, wire, pc, op, id, rx, outcome,
                   deadAtStart, issued>>

\* alive_clone.store(false, Release)
ReaderStoreDead ==
    /\ reader = "exited"
    /\ reader' = "flagged"
    /\ alive' = FALSE
    /\ lastDisp' = NoDisp
    /\ UNCHANGED <<syncVars, shutVars, restVars>>
    /\ UNCHANGED <<ctor, child, readerResult, next_id, pending, stdinLock,
                   stdinOpen, wire, pc, op, id, rx, outcome, deadAtStart,
                   issued>>

\* Mutant of ReaderDrain: the map is cleared only when reader_loop failed,
\* not when it ended at end of stream.
ReaderDrainOnErrorOnly ==
    /\ reader = "flagged"
    /\ reader' = "done"
    /\ pending' = IF readerResult = "err" THEN EmptyMap ELSE pending
    /\ rx' = IF readerResult = "err"
             THEN DropSenders(rx, {pending[k] : k \in DOMAIN pending})
             ELSE rx
    /\ lastDisp' = NoDisp
    /\ UNCHANGED <<syncVars, shutVars, restVars>>
    /\ UNCHANGED <<ctor, child, readerResult, alive, next_id, stdinLock,
                   stdinOpen, wire, pc, op, id, outcome, deadAtStart, issued>>

\* let mut map = pending.lock().await; map.clear(); every sender is dropped.
ReaderDrain ==
    /\ reader = "flagged"
    /\ reader' = "done"
    /\ pending' = EmptyMap
    /\ rx' = DropSenders(rx, {pending[k] : k \in DOMAIN pending})
    /\ lastDisp' = NoDisp
    /\ UNCHANGED <<syncVars, shutVars, restVars>>
    /\ UNCHANGED <<ctor, child, readerResult, alive, next_id, stdinLock,
                   stdinOpen, wire, pc, op, id, outcome, deadAtStart, issued>>

----------------------------------------------------------------------------
Next ==
    \/ CtorSpawn
    \/ CtorSpawnFail
    \/ CtorStartReader
    \/ CtorRootUri
    \/ CtorInitDone
    \/ CtorNotifyDone
    \/ \E t \in Tasks : ReqAlloc(t)
    \/ \E t \in Tasks : ReqInsert(t)
    \/ \E t \in Tasks : SendCheckAlive(t)
    \/ \E t \in Tasks : SendLock(t)
    \/ \E t \in Tasks : SendHeader(t)
    \/ \E t \in Tasks : SendBody(t)
    \/ \E t \in Tasks : SendFlush(t)
    \/ \E t \in Tasks : AwaitResponse(t)
    \/ \E t \in Tasks : AwaitClosed(t)
    \/ \E t \in Tasks : AwaitTimeout(t)
    \/ \E t \in Tasks : ReqAbandon(t)
    \/ StdinBreaks
    \/ ReaderResponse
    \/ ReaderNotification
    \/ ReaderEof
    \/ ReaderError
    \/ ReaderStoreDead
    \/ ReaderDrain

Spec == Init /\ [][Next]_vars

----------------------------------------------------------------------------
\* The state in which new_with_env() returns Ok(client): both handshake
\* frames are on the pipe, the reader task runs, nothing is pending.
HandshakeWire ==
    LET f(part, o, k) == [part |-> part, id |-> k, op |-> o, by |-> Ctor,
                          arg |-> NoArg]
    IN << f("hdr", "initialize", FirstId), f("body", "initialize", FirstId),
          f("hdr", "initialized", 0), f("body", "initialized", 0) >>

ReadyClient ==
    /\ ctor = "returned"
    /\ child = "running"
    /\ reader = "loop"
    /\ readerResult = "none"
    /\ alive = TRUE
    /\ next_id = FetchAddNext(FirstId)
    /\ pending = EmptyMap
    /\ stdinLock = "free"
    /\ stdinOpen = TRUE
    /\ wire = HandshakeWire
    /\ pc = [t \in Tasks |-> "idle"]
    /\ op = [t \in Tasks |-> IF t = Ctor THEN "initialized" ELSE "none"]
    /\ id = [t \in Tasks |-> IF t = Ctor THEN FirstId ELSE 0]
    /\ rx = [t \in Tasks |->
               IF t = Ctor
               THEN [st |-> "full", msg |-> [id |-> FirstId, kind |-> "ok"]]
               ELSE NoRx]
    /\ outcome = [t \in Tasks |-> IF t = Ctor THEN "ok" ELSE "none"]
    /\ deadAtStart = [t \in Tasks |-> FALSE]
    /\ issued = <<FirstId>>
    /\ lastDisp = NoDisp

----------------------------------------------------------------------------
\* ensure_file_open()

\* Calls of ensure_file_open() the model follows.
MaxSyncs == 3

\* Edits of the files on disk the model follows.
MaxEdits == 1

\* Mutant of NextVersion: the version is not advanced.
NextVersionStuck(v) == v

\* *version += 1
NextVersion(v) == v + 1

\* ensure_file_open(file_path) is called: file_uri(file_path)?
SyncStart(t, p) ==
    /\ t \in Callers
    /\ ctor = "returned"
    /\ pc[t] \in {"idle", "done"}
    /\ nsync < MaxSyncs
    /\ nsync' = nsync + 1
    /\ syncCalled' = syncCalled \cup {p}
    /\ doc' = [doc EXCEPT ![t] = [path |-> p, text |-> ""]]
    /\ IF IsAbsolute(p)
       THEN /\ pc' = [pc EXCEPT ![t] = "sync_read"]
            /\ syncRes' = [syncRes EXCEPT ![t] = "none"]
       ELSE /\ pc' = [pc EXCEPT ![t] = "done"]
            /\ syncRes' = [syncRes EXCEPT ![t] = "uri_err"]
    /\ lastDisp' = NoDisp
    /\ UNCHANGED <<arg, opened, disk, syncLog, nedits>>
    /\ UNCHANGED <<shutVars, restVars>>
    /\ UNCHANGED <<ctor, child, reader, readerResult, alive, next_id, pending,
                   stdinLock, stdinOpen, wire, op, id, rx, outcome,
                   deadAtStart, issued>>

\* tokio::fs::read_to_string(file_path).await: the content now on disk, or
\* an I/O error ("failed to read").
SyncRead(t) ==
    /\ pc[t] = "sync_read"
    /\ \/ /\ doc' = [doc EXCEPT ![t].text = disk[doc[t].path]]
          /\ pc' = [pc EXCEPT ![t] = "sync_lock"]
          /\ syncRes' = syncRes
       \/ /\ pc' = [pc EXCEPT ![t] = "done"]
          /\ syncRes' = [syncRes EXCEPT ![t] = "read_err"]
          /\ doc' = [doc EXCEPT ![t] = NoDoc]
    /\ lastDisp' = NoDisp
    /\ UNCHANGED <<arg, opened, disk, syncCalled, syncLog, nsync, nedits>>
    /\ UNCHANGED <<shutVars, restVars>>
    /\ UNCHANGED <<ctor, child, reader, readerResult, alive, next_id, pending,
                   stdinLock, stdinOpen, wire, op, id, rx, outcome,
                   deadAtStart, issued>>

\* The entry of syncLog for the pass of task t through the section.
Decided(t, sent, version) ==
    [by |-> t, path |-> doc[t].path, text |-> doc[t].text, sent |-> sent,
     version |-> version]

\* Mutant of SyncCheck: the first access sends didOpen but stores no record.
SyncCheckNoInsert(t) ==
    /\ pc[t] = "sync_lock"
    /\ LET p == doc[t].path
           h == ContentHash(doc[t].text)
       IN IF p \in DOMAIN opened
          THEN IF opened[p].hash = h
               THEN /\ pc' = [pc EXCEPT ![t] = "done"]
                    /\ syncRes' = [syncRes EXCEPT ![t] = "unchanged"]
                    /\ syncLog' = Append(syncLog, Decided(t, "none", opened[p].version))
                    /\ doc' = [doc EXCEPT ![t] = NoDoc]
                    /\ UNCHANGED <<opened, op, arg>>
               ELSE /\ opened' = [opened EXCEPT ![p] =
                                    [version |-> NextVersion(@.version), hash |-> h]]
                    /\ op' = [op EXCEPT ![t] = "didChange"]
                    /\ arg' = [arg EXCEPT ![t] =
                                 [path |-> p,
                                  version |-> NextVersion(opened[p].version),
                                  text |-> doc[t].text]]
                    /\ pc' = [pc EXCEPT ![t] = "send_check"]
                    /\ syncRes' = syncRes
                    /\ syncLog' = Append(syncLog,
                           Decided(t, "didChange", NextVersion(opened[p].version)))
                    /\ doc' = doc
          ELSE /\ opened' = opened
               /\ op' = [op EXCEPT ![t] = "didOpen"]
               /\ arg' = [arg EXCEPT ![t] =
                            [path |-> p, version |-> 0, text |-> doc[t].text]]
               /\ pc' = [pc EXCEPT ![t] = "send_check"]
               /\ syncRes' = syncRes
               /\ syncLog' = Append(syncLog, Decided(t, "didOpen", 0))
               /\ doc' = doc
    /\ lastDisp' = NoDisp
    /\ UNCHANGED <<disk, syncCalled, nsync, nedits>>
    /\ UNCHANGED <<shutVars, restVars>>
    /\ UNCHANGED <<ctor, child, reader, readerResult, alive, next_id, pending,
                   stdinLock, stdinOpen, wire, id, rx, outcome, deadAtStart,
                   issued>>

\* Mutant of SyncCheck: a changed file bumps the version of every record.
SyncCheckBumpsAll(t) ==
    /\ pc[t] = "sync_lock"
    /\ LET p == doc[t].path
           h == ContentHash(doc[t].text)
       IN IF p \in DOMAIN opened
          THEN IF opened[p].hash = h
               THEN /\ pc' = [pc EXCEPT ![t] = "done"]
                    /\ syncRes' = [syncRes EXCEPT ![t] = "unchanged"]
                    /\ syncLog' = Append(syncLog, Decided(t, "none", opened[p].version))
                    /\ doc' = [doc EXCEPT ![t] = NoDoc]
                    /\ UNCHANGED <<opened, op, arg>>
               ELSE /\ opened' = [q \in DOMAIN opened |->
                                    [version |-> NextVersion(opened[q].version),
                                     hash |-> IF q = p THEN h ELSE opened[q].hash]]
                    /\ op' = [op EXCEPT ![t] = "didChange"]
                    /\ arg' = [arg EXCEPT ![t] =
                                 [path |-> p,
                                  version |-> NextVersion(opened[p].version),
                                  text |-> doc[t].text]]
                    /\ pc' = [pc EXCEPT ![t] = "send_check"]
                    /\ syncRes' = syncRes
                    /\ syncLog' = Append(syncLog,
                           Decided(t, "didChange", NextVersion(opened[p].version)))
                    /\ doc' = doc
          ELSE /\ opened' = MapInsert(opened, p, [version |-> 0, hash |-> h])
               /\ op' = [op EXCEPT ![t] = "didOpen"]
               /\ arg' = [arg EXCEPT ![t] =
                            [path |-> p, version |-> 0, text |-> doc[t].text]]
               /\ pc' = [pc EXCEPT ![t] = "send_check"]
               /\ syncRes' = syncRes
               /\ syncLog' = Append(syncLog, Decided(t, "didOpen", 0))
               /\ doc' = doc
    /\ lastDisp' = NoDisp
    /\ UNCHANGED <<disk, syncCalled, nsync, nedits>>
    /\ UNCHANGED <<shutVars, restVars>>
    /\ UNCHANGED <<ctor, child, reader, readerResult, alive, next_id, pending,
                   stdinLock, stdinOpen, wire, id, rx, outcome, deadAtStart,
                   issued>>

\* let mut opened = self.opened_files.lock().await; the record of the path
\* is looked up and updated, and the guard is dropped, without an await in
\* between.  Unchanged content returns Ok(()) at once; otherwise the
\* notification to send is fixed here and sent after the guard is gone.
SyncCheck(t) ==
    /\ pc[t] = "sync_lock"
    /\ LET p == doc[t].path
           h == ContentHash(doc[t].text)
       IN IF p \in DOMAIN opened
          THEN IF opened[p].hash = h
               THEN /\ pc' = [pc EXCEPT ![t] = "done"]
                    /\ syncRes' = [syncRes EXCEPT ![t] = "unchanged"]
                    /\ syncLog' = Append(syncLog, Decided(t, "none", opened[p].version))
                    /\ doc' = [doc EXCEPT ![t] = NoDoc]
                    /\ UNCHANGED <<opened, op, arg>>
               ELSE /\ opened' = [opened EXCEPT ![p] =
                                    [version |-> NextVersion(@.version), hash |-> h]]
                    /\ op' = [op EXCEPT ![t] = "didChange"]
                    /\ arg' = [arg EXCEPT ![t] =
                                 [path |-> p,
                                  version |-> NextVersion(opened[p].version),
                                  text |-> doc[t].text]]
                    /\ pc' = [pc EXCEPT ![t] = "send_check"]
                    /\ syncRes' = syncRes
                    /\ syncLog' = Append(syncLog,
                           Decided(t, "didChange", NextVersion(opened[p].version)))
                    /\ doc' = doc
          ELSE /\ opened' = MapInsert(opened, p, [version |-> 0, hash |-> h])
               /\ op' = [op EXCEPT ![t] = "didOpen"]
               /\ arg' = [arg EXCEPT ![t] =
                            [path |-> p, version |-> 0, text |-> doc[t].text]]
               /\ pc' = [pc EXCEPT ![t] = "send_check"]
               /\ syncRes' = syncRes
               /\ syncLog' = Append(syncLog, Decided(t, "didOpen", 0))
               /\ doc' = doc
    /\ lastDisp' = NoDisp
    /\ UNCHANGED <<disk, syncCalled, nsync, nedits>>
    /\ UNCHANGED <<shutVars, restVars>>
    /\ UNCHANGED <<ctor, child, reader, readerResult, alive, next_id, pending,
                   stdinLock, stdinOpen, wire, id, rx, outcome, deadAtStart,
                   issued>>

\* Mutant of SyncDone: when the notification failed to send, the record of
\* the path is taken back.
SyncDoneRollsBack(t) ==
    /\ t \in Callers
    /\ op[t] \in {"didOpen", "didChange"}
    /\ pc[t] \in {"notify_ok", "notify_err"}
    /\ pc' = [pc EXCEPT ![t] = "done"]
    /\ syncRes' = [syncRes EXCEPT ![t] =
                     IF pc[t] = "notify_ok" THEN "sent" ELSE "send_err"]
    /\ doc' = [doc EXCEPT ![t] = NoDoc]
    /\ arg' = [arg EXCEPT ![t] = NoArg]
    /\ opened' = IF pc[t] = "notify_err" THEN MapRemove(opened, arg[t].path)
                 ELSE opened
    /\ lastDisp' = NoDisp
    /\ UNCHANGED <<disk, syncCalled, syncLog, nsync, nedits>>
    /\ UNCHANGED <<shutVars, restVars>>
    /\ UNCHANGED <<ctor, child, reader, readerResult, alive, next_id, pending,
                   stdinLock, stdinOpen, wire, op, id, rx, outcome,
                   deadAtStart, issued>>

\* self.notify(..).await returned and its result is the result of
\* ensure_file_open(); the locals of the call are gone.
SyncDone(t) ==
    /\ t \in Callers
    /\ op[t] \in {"didOpen", "didChange"}
    /\ pc[t] \in {"notify_ok", "notify_err"}
    /\ pc' = [pc EXCEPT ![t] = "done"]
    /\ syncRes' = [syncRes EXCEPT ![t] =
                     IF pc[t] = "notify_ok" THEN "sent" ELSE "send_err"]
    /\ doc' = [doc EXCEPT ![t] = NoDoc]
    /\ arg' = [arg EXCEPT ![t] = NoArg]
    /\ lastDisp' = NoDisp
    /\ UNCHANGED <<opened, disk, syncCalled, syncLog, nsync, nedits>>
    /\ UNCHANGED <<shutVars, restVars>>
    /\ UNCHANGED <<ctor, child, reader, readerResult, alive, next_id, pending,
                   stdinLock, stdinOpen, wire, op, id, rx, outcome,
                   deadAtStart, issued>>

\* Somebody edits a file on disk.
Edit(p) ==
    /\ nedits < MaxEdits
    /\ nedits' = nedits + 1
    /\ \E c \in Contents \ {disk[p]} : disk' = [disk EXCEPT ![p] = c]
    /\ lastDisp' = NoDisp
    /\ UNCHANGED <<arg, opened, doc, syncRes, syncCalled, syncLog, nsync>>
    /\ UNCHANGED <<shutVars, restVars>>
    /\ UNCHANGED <<ctor, child, reader, readerResult, alive, next_id, pending,
                   stdinLock, stdinOpen, wire, pc, op, id, rx, outcome,
                   deadAtStart, issued>>

SyncInit == ReadyClient /\ InitSync /\ InitShut /\ InitRest

SyncNext ==
    \/ \E t \in Callers, p \in Paths : SyncStart(t, p)
    \/ \E t \in Callers : SyncRead(t)
    \/ \E t \in Callers : SyncCheck(t)
    \/ \E t \in Callers : SendCheckAlive(t)
    \/ \E t \in Callers : SendLock(t)
    \/ \E t \in Callers : SendHeader(t)
    \/ \E t \in Callers : SendBody(t)
    \/ \E t \in Callers : SendFlush(t)
    \/ \E t \in Callers : SyncDone(t)
    \/ \E p \in Paths : Edit(p)
    \/ StdinBreaks

SyncSpec == SyncInit /\ [][SyncNext]_vars

----------------------------------------------------------------------------
\* shutdown(), called by the main task

\* Calls of shutdown() the model follows.
MaxShutdowns == 2

\* What the rest of the session leaves alone while shutdown() moves.
ShutFrame ==
    /\ lastDisp' = NoDisp
    /\ UNCHANGED <<syncVars, restVars>>
    /\ UNCHANGED <<ctor, reader, readerResult, alive, next_id, pending,
                   stdinLock, stdinOpen, wire, id, rx, outcome, deadAtStart,
                   issued>>

\* shutdown() is called on the client the constructor returned.
ShutStart ==
    /\ ctor = "returned"
    /\ shut \in {"idle", "returned"}
    /\ pc[Ctor] = "idle"
    /\ nshut < MaxShutdowns
    /\ nshut' = nshut + 1
    /\ shut' = "request"
    /\ shutTrace' = <<>>
    /\ shutDead' = ~alive
    /\ ShutFrame
    /\ UNCHANGED <<child, killIssued, pc, op>>

\* Mutant of ShutRequestDone: a failed shutdown request ends shutdown().
ShutRequestDoneStops ==
    /\ shut = "request"
    /\ pc[Ctor] = "done"
    /\ shutTrace' = Append(shutTrace,
                           IF outcome[Ctor] = "ok" THEN "req_ok" ELSE "req_err")
    /\ IF outcome[Ctor] = "ok"
       THEN /\ shut' = "notify"
            /\ op' = [op EXCEPT ![Ctor] = "exit"]
            /\ pc' = [pc EXCEPT ![Ctor] = "send_check"]
       ELSE /\ shut' = "returned"
            /\ op' = op
            /\ pc' = [pc EXCEPT ![Ctor] = "idle"]
    /\ ShutFrame
    /\ UNCHANGED <<child, killIssued, shutDead, nshut>>

\* self.request::<Shutdown>(()).await returned; an Err is only logged, and
\* notify("exit") is called next.
ShutRequestDone ==
    /\ shut = "request"
    /\ pc[Ctor] = "done"
    /\ shutTrace' = Append(shutTrace,
                           IF outcome[Ctor] = "ok" THEN "req_ok" ELSE "req_err")
    /\ shut' = "notify"
    /\ op' = [op EXCEPT ![Ctor] = "exit"]
    /\ pc' = [pc EXCEPT ![Ctor] = "send_check"]
    /\ ShutFrame
    /\ UNCHANGED <<child, killIssued, shutDead, nshut>>

\* self.notify("exit", &()).await returned; an Err is only logged, and the
\* child mutex is taken for the wait.
ShutNotifyDone ==
    /\ shut = "notify"
    /\ pc[Ctor] \in {"notify_ok", "notify_err"}
    /\ shutTrace' = Append(shutTrace,
                           IF pc[Ctor] = "notify_ok" THEN "note_ok" ELSE "note_err")
    /\ shut' = "wait"
    /\ pc' = [pc EXCEPT ![Ctor] = "idle"]
    /\ ShutFrame
    /\ UNCHANGED <<child, killIssued, shutDead, nshut, op>>

\* timeout(5 s, child.wait()).await = Ok(Ok(status)): the child has exited.
ShutWaitExited ==
    /\ shut = "wait"
    /\ child \in {"exited", "killed"}
    /\ shutTrace' = Append(shutTrace, "exited")
    /\ shut' = "returned"
    /\ ShutFrame
    /\ UNCHANGED <<child, killIssued, shutDead, nshut, pc, op>>

\* timeout(5 s, child.wait()).await = Ok(Err(e)): waiting failed; the error
\* is logged and shutdown() returns.
ShutWaitError ==
    /\ shut = "wait"
    /\ shutTrace' = Append(shutTrace, "wait_err")
    /\ shut' = "returned"
    /\ ShutFrame
    /\ UNCHANGED <<child, killIssued, shutDead, nshut, pc, op>>

\* timeout(5 s, child.wait()).await = Err(_): the child is still running
\* when the grace period ends.
ShutWaitTimeout ==
    /\ shut = "wait"
    /\ child = "running"
    /\ shutTrace' = Append(shutTrace, "timeout")
    /\ shut' = "kill"
    /\ ShutFrame
    /\ UNCHANGED <<child, killIssued, shutDead, nshut, pc, op>>

\* child.kill().await, first half: start_kill() sends SIGKILL, so a child
\* that was still running is dead from here on.  shutdown() has not
\* returned, and holds the child mutex.
ShutKill ==
    /\ shut = "kill"
    /\ killIssued' = TRUE
    /\ child' = IF child = "running" THEN "killed" ELSE child
    /\ shutTrace' = Append(shutTrace, "kill")
    /\ shut' = "reap"
    /\ ShutFrame
    /\ UNCHANGED <<shutDead, nshut, pc, op>>

\* child.kill().await, start_kill() fails: kill() returns the Err before
\* any wait, "Failed to kill LSP child" is logged and shutdown() returns
\* with the child as it was and not waited for.
ShutKillFails ==
    /\ shut = "kill"
    /\ killIssued' = TRUE
    /\ shutTrace' = Append(shutTrace, "kill_err")
    /\ shut' = "returned"
    /\ ShutFrame
    /\ UNCHANGED <<child, shutDead, nshut, pc, op>>

\* child.kill().await, second half: the awaited wait() is over; its
\* result is only logged, and shutdown() returns.
ShutKillDone ==
    /\ shut = "reap"
    /\ child \in {"exited", "killed"}
    /\ shut' = "returned"
    /\ ShutFrame
    /\ UNCHANGED <<child, killIssued, shutTrace, shutDead, nshut, pc, op>>

\* The sidecar process exits on its own.
ChildExits ==
    /\ child = "running"
    /\ child' = "exited"
    /\ lastDisp' = NoDisp
    /\ UNCHANGED <<syncVars, shutVars, restVars>>
    /\ UNCHANGED <<ctor, reader, readerResult, alive, next_id, pending,
                   stdinLock, stdinOpen, wire, pc, op, id, rx, outcome,
                   deadAtStart, issued>>

ShutInit == ReadyClient /\ InitSync /\ InitShut /\ InitRest

ShutNext ==
    \/ ShutStart
    \/ ReqAlloc(Ctor)
    \/ ReqInsert(Ctor)
    \/ SendCheckAlive(Ctor)
    \/ SendLock(Ctor)
    \/ SendHeader(Ctor)
    \/ SendBody(Ctor)
    \/ SendFlush(Ctor)
    \/ AwaitResponse(Ctor)
    \/ AwaitClosed(Ctor)
    \/ AwaitTimeout(Ctor)
    \/ ReqAbandon(Ctor)
    \/ ShutRequestDone
    \/ ShutNotifyDone
    \/ ShutWaitExited
    \/ ShutWaitError
    \/ ShutWaitTimeout
    \/ ShutKill
    \/ ShutKillFails
    \/ ShutKillDone
    \/ ChildExits
    \/ StdinBreaks
    \/ ReaderResponse
    \/ ReaderNotification
    \/ ReaderEof
    \/ ReaderError
    \/ ReaderStoreDead
    \/ ReaderDrain

ShutSpec == ShutInit /\ [][ShutNext]_vars

----------------------------------------------------------------------------
\* The whole life of a session: construction, requests, shutdown.

\* The tasks followed through a whole life: the main task, which constructs
\* the client and shuts it down, and one caller, which may call request()
\* whenever it holds the client: before, during and after shutdown().
LifeTasks == {Ctor, "c1"}

LifeNext ==
    \/ CtorSpawn
    \/ CtorSpawnFail
    \/ CtorStartReader
    \/ CtorRootUri
    \/ CtorInitDone
    \/ CtorNotifyDone
    \/ \E t \in LifeTasks : ReqAlloc(t)
    \/ \E t \in LifeTasks : ReqInsert(t)
    \/ \E t \in LifeTasks : SendCheckAlive(t)
    \/ \E t \in LifeTasks : SendLock(t)
    \/ \E t \in LifeTasks : SendHeader(t)
    \/ \E t \in LifeTasks : SendBody(t)
    \/ \E t \in LifeTasks : SendFlush(t)
    \/ \E t \in LifeTasks : AwaitResponse(t)
    \/ \E t \in LifeTasks : AwaitClosed(t)
    \/ \E t \in LifeTasks : AwaitTimeout(t)
    \/ \E t \in LifeTasks : ReqAbandon(t)
    \/ StdinBreaks
    \/ ReaderResponse
    \/ ReaderNotification
    \/ ReaderEof
    \/ ReaderError
    \/ ReaderStoreDead
    \/ ReaderDrain
    \/ ShutStart
    \/ ShutRequestDone
    \/ ShutNotifyDone
    \/ ShutWaitExited
    \/ ShutWaitError
    \/ ShutWaitTimeout
    \/ ShutKill
    \/ ShutKillFails
    \/ ShutKillDone
    \/ ChildExits

LifeSpec == Init /\ [][LifeNext]_vars

\* The state of the session.  The client keeps no session variable; the
\* state is read off what the code holds: the position of the constructor,
\* the liveness flag every send consults, and whether a call of shutdown()
\* is running.  A shutdown() that has returned leaves no record in the
\* client.
SessionOf(c, sh, al) ==
    IF c = "failed" \/ ~al THEN "Terminated"
    ELSE IF c = "start" THEN "Starting"
    ELSE IF c # "returned" THEN "Handshaking"
    ELSE IF sh \notin {"idle", "returned"} THEN "ShuttingDown"
    ELSE "Ready"

Session == SessionOf(ctor, shut, alive)

----------------------------------------------------------------------------
\* Framing: send_message() and reader_loop(), byte by byte.  A string is the
\* sequence of its UTF-8 bytes.

\* Pieces the sidecar's output is put together from.
MaxPieces == 2

\* MAX_LSP_MESSAGE_SIZE
MaxMessageSize == 100 * 1024 * 1024

\* "Content-Length: "
ContentLengthPrefix == <<67, 111, 110, 116, 101, 110, 116, 45, 76, 101, 110, 103, 116, 104, 58, 32>>

\* "\r\n"
CrLf == <<13, 10>>

\* The decimal digits of n, as format!("{}", n) prints them.
RECURSIVE Digits(_)
Digits(n) == IF n < 10 THEN <<48 + n>>
             ELSE Digits(n \div 10) \o <<48 + (n % 10)>>

\* String::from_utf8 / read_line: the bytes are well-formed UTF-8.  A lead
\* byte tells how many continuation bytes follow it; the first of them is
\* held to the range that rules out overlong forms (E0, F0), surrogates
\* (ED) and code points above U+10FFFF (F4), the others to 128..191.
SecondByteRange(b) ==
    CASE b = 224 -> 160..191
      [] b = 237 -> 128..159
      [] b = 240 -> 144..191
      [] b = 244 -> 128..143
      [] OTHER   -> 128..191

RECURSIVE IsUtf8(_)
IsUtf8(bs) ==
    IF bs = <<>> THEN TRUE
    ELSE LET b == bs[1]
             n == IF b < 128 THEN 0
                  ELSE IF b >= 194 /\ b <= 223 THEN 1
                  ELSE IF b >= 224 /\ b <= 239 THEN 2
                  ELSE IF b >= 240 /\ b <= 244 THEN 3
                  ELSE -1
         IN /\ n >= 0
            /\ Len(bs) > n
            /\ n >= 1 => bs[2] \in SecondByteRange(b)
            /\ \A i \in 3..(n + 1) : bs[i] >= 128 /\ bs[i] <= 191
            /\ IsUtf8(SubSeq(bs, n + 2, Len(bs)))

\* Number of characters of a string given by its bytes.
CharCount(bs) == Cardinality({i \in 1..Len(bs) : bs[i] < 128 \/ bs[i] > 191})

\* Mutant of BodyLen: the length in characters instead of bytes.
BodyLenChars(body) == CharCount(body)

\* body.len(): the length of the String in bytes.
BodyLen(body) == Len(body)

\* format!("Content-Length: {}\r\n\r\n", body.len())
FrameHeader(n) == ContentLengthPrefix \o Digits(n) \o CrLf \o CrLf

\* What send_message() writes for a body: the header, then the body, and
\* nothing after it.
FrameBytes(body) == FrameHeader(BodyLen(body)) \o body

\* A message as the client looks at it: the type of its "id" member
\* ("none" without one), the value of an integer id, and its kind by the
\* members the caller reads (see Kinds; "null" for a result of null,
\* "request" and "note" for a message with a method and with or without an
\* id).  NoJson stands for a body that is no JSON.
NoJson == [idt |-> "none", id |-> 0, kind |-> "none"]

JsonValues ==
    { [idt |-> "int",  id |-> 2, kind |-> "ok"],
      [idt |-> "int",  id |-> 2, kind |-> "error"],
      [idt |-> "int",  id |-> 3, kind |-> "absent"],
      [idt |-> "none", id |-> 0, kind |-> "note"],
      [idt |-> "str",  id |-> 0, kind |-> "bad"],
      [idt |-> "int",  id |-> 2, kind |-> "bad"],
      [idt |-> "int",  id |-> 2, kind |-> "request"] }

\* serde_json::to_string(value): compact, the members of an object in the
\* order of their keys (serde_json keeps an object in a BTreeMap), text
\* outside ASCII as its UTF-8 bytes.
JsonText(v) ==
    CASE v = [idt |-> "int",  id |-> 2, kind |-> "ok"]     -> <<123, 34, 105, 100, 34, 58, 50, 44, 34, 114, 101, 115, 117, 108, 116, 34, 58, 123, 34, 99, 111, 110, 116, 101, 110, 116, 115, 34, 58, 34, 195, 169, 34, 125, 125>>
      [] v = [idt |-> "int",  id |-> 2, kind |-> "bad"]    -> <<123, 34, 105, 100, 34, 58, 50, 44, 34, 114, 101, 115, 117, 108, 116, 34, 58, 34, 195, 169, 34, 125>>
      [] v = [idt |-> "int",  id |-> 2, kind |-> "error"]  -> <<123, 34, 101, 114, 114, 111, 114, 34, 58, 123, 125, 44, 34, 105, 100, 34, 58, 50, 125>>
      [] v = [idt |-> "int",  id |-> 3, kind |-> "absent"] -> <<123, 34, 105, 100, 34, 58, 51, 125>>
      [] v = [idt |-> "none", id |-> 0, kind |-> "note"]   -> <<123, 34, 109, 101, 116, 104, 111, 100, 34, 58, 34, 109, 34, 125>>
      [] v = [idt |-> "str",  id |-> 0, kind |-> "bad"]    -> <<123, 34, 105, 100, 34, 58, 34, 50, 34, 44, 34, 114, 101, 115, 117, 108, 116, 34, 58, 49, 125>>
      [] v = [idt |-> "int",  id |-> 2, kind |-> "request"] -> <<123, 34, 105, 100, 34, 58, 50, 44, 34, 109, 101, 116, 104, 111, 100, 34, 58, 34, 109, 34, 125>>
      [] OTHER -> <<>>

\* A piece of output: the frame of a JSON value as send_message() frames
\* it, or raw bytes.
FramePiece(v) == [val |-> v, raw |-> <<>>]

RawPiece(bs) == [val |-> NoJson, raw |-> bs]

PieceBytes(pc0) ==
    IF pc0.val # NoJson THEN FrameBytes(JsonText(pc0.val)) ELSE pc0.raw

\* Raw pieces: a header announcing one byte more than the maximum, a
\* header announcing the maximum, a header line without the blank line, a
\* line cut off by the end of the stream, a frame whose body is cut off,
\* a blank line alone, a length that is no number, a header line of
\* another name, a body that is no JSON, a line of a no-break space, a
\* frame whose length has leading zeros and whose body is an empty object
\* followed by a line feed.
RawPieces ==
    { RawPiece(FrameHeader(MaxMessageSize + 1) \o <<120>>),
      RawPiece(FrameHeader(MaxMessageSize)),
      RawPiece(ContentLengthPrefix \o Digits(7) \o CrLf),
      RawPiece(<<67, 111, 110, 116, 101, 110, 116, 45, 76, 101>>),
      RawPiece(FrameHeader(7) \o <<123, 34, 105, 100>>),
      RawPiece(CrLf),
      RawPiece(ContentLengthPrefix \o <<120>> \o CrLf),
      RawPiece(<<88, 58, 32, 49>> \o CrLf),
      RawPiece(FrameHeader(1) \o <<120>>),
      RawPiece(<<194, 160>> \o CrLf),
      RawPiece(ContentLengthPrefix \o <<48, 48, 48, 48, 48, 48, 48, 48, 48, 51>>
               \o CrLf \o CrLf \o <<123, 125, 10>>) }

Pieces == {FramePiece(v) : v \in JsonValues} \cup RawPieces

RECURSIVE Concat(_)
Concat(ps) == IF ps = <<>> THEN <<>>
              ELSE PieceBytes(Head(ps)) \o Concat(Tail(ps))

\* Sequences of at most n pieces.
RECURSIVE PieceSeqs(_)
PieceSeqs(n) ==
    IF n = 0 THEN {<<>>}
    ELSE LET shorter == PieceSeqs(n - 1)
         IN shorter \cup {Append(q, x) : q \in shorter, x \in Pieces}

\* reader.read_line(&mut line): the bytes after position p up to and
\* including the next line feed, or up to the end of the stream.
LineAt(s, p) ==
    LET ends == {i \in (p + 1)..Len(s) : s[i] = 10}
        e == IF ends = {} THEN Len(s)
             ELSE CHOOSE i \in ends : \A j \in ends : i <= j
    IN SubSeq(s, p + 1, e)

\* char::is_whitespace: the characters with the Unicode property
\* White_Space, each given by its UTF-8 bytes: U+0009..U+000D, U+0020,
\* U+0085, U+00A0, U+1680, U+2000..U+200A, U+2028, U+2029, U+202F, U+205F,
\* U+3000.
WhiteSpace ==
    {<<b>> : b \in {9, 10, 11, 12, 13, 32}}
    \cup {<<194, 133>>, <<194, 160>>, <<225, 154, 128>>}
    \cup {<<226, 128, b>> : b \in (128..138) \cup {168, 169, 175}}
    \cup {<<226, 129, 159>>, <<227, 128, 128>>}

HasPrefix(bs, pre) == Len(bs) >= Len(pre) /\ SubSeq(bs, 1, Len(pre)) = pre

HasSuffix(bs, suf) ==
    Len(bs) >= Len(suf) /\ SubSeq(bs, Len(bs) - Len(suf) + 1, Len(bs)) = suf

\* line.trim(): the string without the white space at its two ends.  The
\* argument is well-formed UTF-8, so a match of the bytes of a character at
\* an end is that character.
RECURSIVE Trim(_)
Trim(bs) ==
    IF \E w \in WhiteSpace : HasPrefix(bs, w)
    THEN Trim(SubSeq(bs, 1 + Len(CHOOSE w \in WhiteSpace : HasPrefix(bs, w)),
                     Len(bs)))
    ELSE IF \E w \in WhiteSpace : HasSuffix(bs, w)
    THEN Trim(SubSeq(bs, 1,
                     Len(bs) - Len(CHOOSE w \in WhiteSpace : HasSuffix(bs, w))))
    ELSE bs

RECURSIVE DigitsValue(_)
DigitsValue(ds) ==
    IF ds = <<>> THEN 0
    ELSE 10 * DigitsValue(SubSeq(ds, 1, Len(ds) - 1)) + (ds[Len(ds)] - 48)

\* A digit string without its leading zeros.
RECURSIVE StripZeros(_)
StripZeros(ds) ==
    IF ds # <<>> /\ ds[1] = 48 THEN StripZeros(Tail(ds)) ELSE ds

\* The number of the digit string a is at most that of b; neither has a
\* leading zero.
RECURSIVE DigitsLeq(_, _)
DigitsLeq(a, b) ==
    IF Len(a) # Len(b) THEN Len(a) < Len(b)
    ELSE IF a = <<>> THEN TRUE
    ELSE IF a[1] # b[1] THEN a[1] < b[1]
    ELSE DigitsLeq(Tail(a), Tail(b))

\* The largest integer held exactly; a larger one is held as this value.
IntMax == 2147483647

\* The number of a digit string, up to IntMax.
Saturated(ds) ==
    LET sig == StripZeros(ds)
    IN IF DigitsLeq(sig, Digits(IntMax)) THEN DigitsValue(sig) ELSE IntMax

\* usize::MAX of the 64-bit targets: 18446744073709551615
UsizeMaxDigits ==
    <<49, 56, 52, 52, 54, 55, 52, 52, 48, 55, 51, 55, 48, 57, 53, 53, 49, 54, 49, 53>>

\* Mutant of ParseUsize: a value that is no number counts as 0.
ParseUsizeLenient(ds) ==
    LET num == IF ds # <<>> /\ ds[1] = 43 THEN Tail(ds) ELSE ds
    IN IF num = <<>>
          \/ \E i \in 1..Len(num) : num[i] < 48 \/ num[i] > 57
          \/ ~DigitsLeq(StripZeros(num), UsizeMaxDigits)
       THEN 0
       ELSE Saturated(num)

\* len_str.parse::<usize>(): decimal digits, of any number and with any
\* leading zeros, after an optional plus sign, of a value up to usize::MAX;
\* -1 stands for the parse error.  A length above IntMax is held as IntMax:
\* reader_loop does nothing with a length but compare it with
\* MAX_LSP_MESSAGE_SIZE before it allocates.
ParseUsize(ds) ==
    LET num == IF ds # <<>> /\ ds[1] = 43 THEN Tail(ds) ELSE ds
    IN IF num = <<>>
          \/ \E i \in 1..Len(num) : num[i] < 48 \/ num[i] > 57
          \/ ~DigitsLeq(StripZeros(num), UsizeMaxDigits)
       THEN -1
       ELSE Saturated(num)

\* serde_json::from_slice::<Value>(&body), by the grammar the parser reads:
\* white space, objects, arrays, strings with their escapes, numbers and the
\* three literals, nested less than 128 deep, and nothing after the value.

\* A Value: its type ("null", "bool", "uint" for a u64, "nint" for a negative
\* i64, "float", "str", "arr", "obj"), the digits of an integer without
\* leading zeros or the bytes of a string, and the elements of an array or
\* the members of an object, each member a key k and a value v.
JsonVal(t, ds, el) == [t |-> t, ds |-> ds, el |-> el]

\* Stands for no value: Value::get of a member that is not there.
Absent == JsonVal("none", <<>>, <<>>)

JsonFail == [ok |-> FALSE, pos |-> 0, val |-> Absent]

JsonOk(p, v) == [ok |-> TRUE, pos |-> p, val |-> v]

StrFail == [ok |-> FALSE, pos |-> 0, bytes |-> <<>>]

\* parse_whitespace: space, tab, line feed, carriage return
RECURSIVE SkipWs(_, _)
SkipWs(s, i) ==
    IF i <= Len(s) /\ s[i] \in {32, 9, 10, 13} THEN SkipWs(s, i + 1) ELSE i

\* The place after the digits from i on.
RECURSIVE DigitsEnd(_, _)
DigitsEnd(s, i) ==
    IF i <= Len(s) /\ s[i] \in 48..57 THEN DigitsEnd(s, i + 1) ELSE i

\* decode_hex_val
HexDigitValue(b) ==
    IF b \in 48..57 THEN b - 48
    ELSE IF b \in 65..70 THEN b - 55
    ELSE IF b \in 97..102 THEN b - 87
    ELSE -1

\* The number of the four hexadecimal digits at i, or -1.
Hex4(s, i) ==
    IF i + 3 > Len(s) \/ \E j \in i..(i + 3) : HexDigitValue(s[j]) = -1
    THEN -1
    ELSE 4096 * HexDigitValue(s[i]) + 256 * HexDigitValue(s[i + 1])
         + 16 * HexDigitValue(s[i + 2]) + HexDigitValue(s[i + 3])

\* char::encode_utf8
EncodeUtf8(c) ==
    IF c < 128 THEN <<c>>
    ELSE IF c < 2048 THEN <<192 + (c \div 64), 128 + (c % 64)>>
    ELSE IF c < 65536
    THEN <<224 + (c \div 4096), 128 + ((c \div 64) % 64), 128 + (c % 64)>>
    ELSE <<240 + (c \div 262144), 128 + ((c \div 4096) % 64),
           128 + ((c \div 64) % 64), 128 + (c % 64)>>

\* parse_escape, at the byte after the backslash: the simple escapes, and
\* \u with four hexadecimal digits, where a leading surrogate must be
\* followed by the escape of a trailing one and a trailing one alone is an
\* error.
ParseEscape(s, i) ==
    IF i > Len(s) THEN StrFail
    ELSE CASE s[i] = 34  -> [ok |-> TRUE, pos |-> i + 1, bytes |-> <<34>>]
           [] s[i] = 92  -> [ok |-> TRUE, pos |-> i + 1, bytes |-> <<92>>]
           [] s[i] = 47  -> [ok |-> TRUE, pos |-> i + 1, bytes |-> <<47>>]
           [] s[i] = 98  -> [ok |-> TRUE, pos |-> i + 1, bytes |-> <<8>>]
           [] s[i] = 102 -> [ok |-> TRUE, pos |-> i + 1, bytes |-> <<12>>]
           [] s[i] = 110 -> [ok |-> TRUE, pos |-> i + 1, bytes |-> <<10>>]
           [] s[i] = 114 -> [ok |-> TRUE, pos |-> i + 1, bytes |-> <<13>>]
           [] s[i] = 116 -> [ok |-> TRUE, pos |-> i + 1, bytes |-> <<9>>]
           [] s[i] = 117 ->
                LET n1 == Hex4(s, i + 1)
                    n2 == IF i + 6 <= Len(s) /\ s[i + 5] = 92 /\ s[i + 6] = 117
                          THEN Hex4(s, i + 7) ELSE -1
                IN IF n1 = -1 \/ (n1 >= 56320 /\ n1 <= 57343) THEN StrFail
                   ELSE IF n1 >= 55296 /\ n1 <= 56319
                   THEN IF n2 >= 56320 /\ n2 <= 57343
                        THEN [ok |-> TRUE, pos |-> i + 11,
                              bytes |-> EncodeUtf8(65536 + (n1 - 55296) * 1024
                                                   + (n2 - 56320))]
                        ELSE StrFail
                   ELSE [ok |-> TRUE, pos |-> i + 5, bytes |-> EncodeUtf8(n1)]
           [] OTHER -> StrFail

\* parse_str, at the byte after the opening quote: up to the closing
\* quote, no control character unescaped, and the whole of it well-formed
\* UTF-8; acc is the string read so far.
RECURSIVE ParseStr(_, _, _)
ParseStr(s, i, acc) ==
    IF i > Len(s) THEN StrFail
    ELSE IF s[i] = 34
    THEN IF IsUtf8(acc) THEN [ok |-> TRUE, pos |-> i + 1, bytes |-> acc]
         ELSE StrFail
    ELSE IF s[i] = 92
    THEN LET e == ParseEscape(s, i + 1)
         IN IF e.ok THEN ParseStr(s, e.pos, acc \o e.bytes) ELSE StrFail
    ELSE IF s[i] < 32 THEN StrFail
    ELSE ParseStr(s, i + 1, Append(acc, s[i]))

\* i64::MAX, 2^63, and u32::MAX
I64MaxDigits == <<57, 50, 50, 51, 51, 55, 50, 48, 51, 54, 56, 53, 52, 55, 55, 53, 56, 48, 55>>

I64MinDigits == <<57, 50, 50, 51, 51, 55, 50, 48, 51, 54, 56, 53, 52, 55, 55, 53, 56, 48, 56>>

U32MaxDigits == <<52, 50, 57, 52, 57, 54, 55, 50, 57, 53>>

\* The exponent of a number, up to a thousand million either way.
ExponentCap == 1000000000

\* For the exponents at which a u64 times the power of ten can be infinite,
\* up to the largest of POW10, the table of the powers of ten that are an
\* f64: the smallest significand s for which (s as f64) * POW10[exponent]
\* is infinite.
F64Overflow ==
    289 :> <<49, 55, 57, 55, 54, 57, 51, 49, 51, 52, 56, 54, 50, 51, 49, 53, 54, 50, 50, 53>>
    @@ 290 :> <<49, 55, 57, 55, 54, 57, 51, 49, 51, 52, 56, 54, 50, 51, 49, 53, 54, 52, 57>>
    @@ 291 :> <<49, 55, 57, 55, 54, 57, 51, 49, 51, 52, 56, 54, 50, 51, 49, 54, 48, 48>>
    @@ 292 :> <<49, 55, 57, 55, 54, 57, 51, 49, 51, 52, 56, 54, 50, 51, 49, 53, 56>>
    @@ 293 :> <<49, 55, 57, 55, 54, 57, 51, 49, 51, 52, 56, 54, 50, 51, 49, 54>>
    @@ 294 :> <<49, 55, 57, 55, 54, 57, 51, 49, 51, 52, 56, 54, 50, 51, 50>>
    @@ 295 :> <<49, 55, 57, 55, 54, 57, 51, 49, 51, 52, 56, 54, 50, 52>>
    @@ 296 :> <<49, 55, 57, 55, 54, 57, 51, 49, 51, 52, 56, 54, 51>>
    @@ 297 :> <<49, 55, 57, 55, 54, 57, 51, 49, 51, 52, 56, 55>>
    @@ 298 :> <<49, 55, 57, 55, 54, 57, 51, 49, 51, 52, 57>>
    @@ 299 :> <<49, 55, 57, 55, 54, 57, 51, 49, 51, 53>>
    @@ 300 :> <<49, 55, 57, 55, 54, 57, 51, 49, 52>>
    @@ 301 :> <<49, 55, 57, 55, 54, 57, 51, 50>>
    @@ 302 :> <<49, 55, 57, 55, 54, 57, 52>>
    @@ 303 :> <<49, 55, 57, 55, 55, 48>>
    @@ 304 :> <<49, 55, 57, 55, 55>>
    @@ 305 :> <<49, 55, 57, 56>>
    @@ 306 :> <<49, 56, 48>>
    @@ 307 :> <<49, 56>>
    @@ 308 :> <<50>>

\* overflow!(significand * 10 + digit, u64::MAX) is false: the digits are a
\* u64.
FitsU64(ds) == DigitsLeq(StripZeros(ds), UsizeMaxDigits)

\* The number of the leading digits of ds the significand acc takes in
\* before significand * 10 + digit overflows.
TakeFit(acc, ds) ==
    LET ks == {k \in 0..Len(ds) : FitsU64(acc \o SubSeq(ds, 1, k))}
    IN CHOOSE k \in ks : \A j \in ks : j <= k

\* f64_from_parts does not fail with "number out of range": the significand
\* sig (without leading zeros) is zero, or the exponent is negative, or the
\* power of ten is in POW10 and the product is finite.
F64FromParts(sig, exponent) ==
    \/ sig = <<>>
    \/ exponent < 0
    \/ \A e \in DOMAIN F64Overflow : exponent < e
    \/ /\ exponent \in DOMAIN F64Overflow
       /\ ~DigitsLeq(F64Overflow[exponent], sig)

\* parse_integer, parse_long_integer, parse_decimal, parse_decimal_overflow
\* and parse_exponent, at a minus sign or a digit: no leading zero before
\* another digit, a digit after the point and in the exponent.  The
\* significand takes in the digits of the integer part while it stays a
\* u64, every further one raising the exponent by one; then the digits of
\* the fraction while it stays a u64, every one lowering the exponent by
\* one and the further ones dropped; the written exponent is added.  A
\* number without fraction and exponent whose digits are a u64 is that
\* integer: a u64, a negative i64, or the f64 of a negative zero or of a
\* negative number below i64::MIN.
ParseNumber(s, i) ==
    LET neg == s[i] = 45
        a == IF neg THEN i + 1 ELSE i
        b == DigitsEnd(s, a)
        intd == SubSeq(s, a, b - 1)
        hasFrac == b <= Len(s) /\ s[b] = 46
        c == IF hasFrac THEN DigitsEnd(s, b + 1) ELSE b
        frac == IF hasFrac THEN SubSeq(s, b + 1, c - 1) ELSE <<>>
        hasExp == c <= Len(s) /\ s[c] \in {101, 69}
        sgn == hasExp /\ c + 1 <= Len(s) /\ s[c + 1] \in {43, 45}
        d == IF sgn THEN c + 2 ELSE c + 1
        e == IF hasExp THEN DigitsEnd(s, d) ELSE c
        expd == IF hasExp THEN SubSeq(s, d, e - 1) ELSE <<>>
        k1 == TakeFit(<<>>, intd)
        k2 == TakeFit(SubSeq(intd, 1, k1), frac)
        sig == StripZeros(SubSeq(intd, 1, k1) \o SubSeq(frac, 1, k2))
        xd == StripZeros(expd)
        x == IF DigitsLeq(xd, Digits(ExponentCap)) THEN DigitsValue(xd)
             ELSE ExponentCap
        exponent == (Len(intd) - k1) - k2
                    + (IF sgn /\ s[c + 1] = 45 THEN 0 - x ELSE x)
    IN IF intd = <<>> \/ (intd[1] = 48 /\ Len(intd) > 1)
          \/ (hasFrac /\ frac = <<>>) \/ (hasExp /\ expd = <<>>)
       THEN JsonFail
       ELSE IF hasFrac \/ hasExp \/ k1 < Len(intd)
       THEN IF F64FromParts(sig, exponent)
            THEN JsonOk(e, JsonVal("float", <<>>, <<>>))
            ELSE JsonFail
       ELSE IF ~neg
       THEN JsonOk(e, JsonVal("uint", sig, <<>>))
       ELSE IF sig # <<>> /\ DigitsLeq(sig, I64MinDigits)
       THEN JsonOk(e, JsonVal("nint", sig, <<>>))
       ELSE JsonOk(e, JsonVal("float", <<>>, <<>>))

\* Map::insert: a member takes the place of an earlier one of its key.
WithMember(mem, key, v) ==
    IF \E i \in 1..Len(mem) : mem[i].k = key
    THEN [i \in 1..Len(mem) |->
              IF mem[i].k = key THEN [k |-> key, v |-> v] ELSE mem[i]]
    ELSE Append(mem, [k |-> key, v |-> v])

\* parse_value: the value at i after white space; depth is remaining_depth,
\* which an object or an array lowers by one and which may not reach zero.
\* ParseMembers reads "key": value pairs from a key on, ParseElements the
\* values of an array from a value on.
RECURSIVE ParseValue(_, _, _)
RECURSIVE ParseMembers(_, _, _, _)
RECURSIVE ParseElements(_, _, _, _)
ParseValue(s, i0, depth) ==
    LET i == SkipWs(s, i0)
        j == SkipWs(s, i + 1)
        str == ParseStr(s, i + 1, <<>>)
    IN IF i > Len(s) THEN JsonFail
       ELSE CASE s[i] = 123 ->
                   IF depth = 1 THEN JsonFail
                   ELSE IF j <= Len(s) /\ s[j] = 125
                   THEN JsonOk(j + 1, JsonVal("obj", <<>>, <<>>))
                   ELSE ParseMembers(s, j, depth - 1, <<>>)
              [] s[i] = 91 ->
                   IF depth = 1 THEN JsonFail
                   ELSE IF j <= Len(s) /\ s[j] = 93
                   THEN JsonOk(j + 1, JsonVal("arr", <<>>, <<>>))
                   ELSE ParseElements(s, j, depth - 1, <<>>)
              [] s[i] = 34 ->
                   IF str.ok THEN JsonOk(str.pos, JsonVal("str", str.bytes, <<>>))
                   ELSE JsonFail
              [] s[i] = 45 \/ s[i] \in 48..57 -> ParseNumber(s, i)
              [] s[i] = 116 ->
                   IF HasPrefix(SubSeq(s, i, Len(s)), <<116, 114, 117, 101>>)
                   THEN JsonOk(i + 4, JsonVal("bool", <<1>>, <<>>))
                   ELSE JsonFail
              [] s[i] = 102 ->
                   IF HasPrefix(SubSeq(s, i, Len(s)), <<102, 97, 108, 115, 101>>)
                   THEN JsonOk(i + 5, JsonVal("bool", <<0>>, <<>>))
                   ELSE JsonFail
              [] s[i] = 110 ->
                   IF HasPrefix(SubSeq(s, i, Len(s)), <<110, 117, 108, 108>>)
                   THEN JsonOk(i + 4, JsonVal("null", <<>>, <<>>))
                   ELSE JsonFail
              [] OTHER -> JsonFail

ParseMembers(s, j, depth, mem) ==
    LET key == ParseStr(s, j + 1, <<>>)
        c == SkipWs(s, key.pos)
        v == ParseValue(s, c + 1, depth)
        e == SkipWs(s, v.pos)
        mem2 == WithMember(mem, key.bytes, v.val)
    IN IF j > Len(s) \/ s[j] # 34 THEN JsonFail
       ELSE IF ~key.ok THEN JsonFail
       ELSE IF c > Len(s) \/ s[c] # 58 THEN JsonFail
       ELSE IF ~v.ok THEN JsonFail
       ELSE IF e > Len(s) THEN JsonFail
       ELSE IF s[e] = 125 THEN JsonOk(e + 1, JsonVal("obj", <<>>, mem2))
       ELSE IF s[e] = 44 THEN ParseMembers(s, SkipWs(s, e + 1), depth, mem2)
       ELSE JsonFail

ParseElements(s, j, depth, el) ==
    LET v == ParseValue(s, j, depth)
        e == SkipWs(s, v.pos)
        el2 == Append(el, v.val)
    IN IF ~v.ok THEN JsonFail
       ELSE IF e > Len(s) THEN JsonFail
       ELSE IF s[e] = 93 THEN JsonOk(e + 1, JsonVal("arr", <<>>, el2))
       ELSE IF s[e] = 44 THEN ParseElements(s, SkipWs(s, e + 1), depth, el2)
       ELSE JsonFail

\* Value::get(key): the member of an object, Absent of any other value
Member(v, key) ==
    IF v.t = "obj" /\ \E i \in 1..Len(v.el) : v.el[i].k = key
    THEN v.el[CHOOSE i \in 1..Len(v.el) : v.el[i].k = key].v
    ELSE Absent

\* Value::as_i64
AsI64(v) ==
    \/ v.t = "uint" /\ DigitsLeq(v.ds, I64MaxDigits)
    \/ v.t = "nint"

\* serde_json::from_value::<u32>: a u64 up to u32::MAX
IsU32(v) == v.t = "uint" /\ DigitsLeq(v.ds, U32MaxDigits)

\* lsp_types::Position { line: u32, character: u32 }.  A struct is
\* deserialized as serde derives it: from an object with its required
\* members, whatever else it holds, or from an array of exactly its fields.
IsPosition(v) ==
    \/ /\ v.t = "obj"
       /\ IsU32(Member(v, <<108, 105, 110, 101>>))
       /\ IsU32(Member(v, <<99, 104, 97, 114, 97, 99, 116, 101, 114>>))
    \/ /\ v.t = "arr"
       /\ Len(v.el) = 2
       /\ IsU32(v.el[1])
       /\ IsU32(v.el[2])

\* lsp_types::Range { start: Position, end: Position }
IsRange(v) ==
    \/ /\ v.t = "obj"
       /\ IsPosition(Member(v, <<115, 116, 97, 114, 116>>))
       /\ IsPosition(Member(v, <<101, 110, 100>>))
    \/ /\ v.t = "arr"
       /\ Len(v.el) = 2
       /\ IsPosition(v.el[1])
       /\ IsPosition(v.el[2])

\* Option<Range>: a field that is not there, null, or a Range
IsOptionRange(v) == v.t \in {"none", "null"} \/ IsRange(v)

IsString(v) == v.t = "str"

\* lsp_types::MarkedString, untagged: a String, or a LanguageString
\* { language: String, value: String }
IsMarkedString(v) ==
    \/ IsString(v)
    \/ /\ v.t = "obj"
       /\ IsString(Member(v, <<108, 97, 110, 103, 117, 97, 103, 101>>))
       /\ IsString(Member(v, <<118, 97, 108, 117, 101>>))
    \/ /\ v.t = "arr"
       /\ Len(v.el) = 2
       /\ IsString(v.el[1])
       /\ IsString(v.el[2])

\* lsp_types::MarkupKind, an enum of unit variants in lower case: the name
\* of a variant, or an object of that one name with null
IsMarkupKind(v) ==
    LET names == {<<112, 108, 97, 105, 110, 116, 101, 120, 116>>,
                  <<109, 97, 114, 107, 100, 111, 119, 110>>}
    IN \/ v.t = "str" /\ v.ds \in names
       \/ /\ v.t = "obj"
          /\ Len(v.el) = 1
          /\ v.el[1].k \in names
          /\ v.el[1].v.t = "null"

\* lsp_types::HoverContents, untagged: Scalar(MarkedString),
\* Array(Vec<MarkedString>), or Markup(MarkupContent { kind, value })
IsHoverContents(v) ==
    \/ IsMarkedString(v)
    \/ v.t = "arr" /\ \A i \in 1..Len(v.el) : IsMarkedString(v.el[i])
    \/ /\ v.t = "obj"
       /\ IsMarkupKind(Member(v, <<107, 105, 110, 100>>))
       /\ IsString(Member(v, <<118, 97, 108, 117, 101>>))
    \/ /\ v.t = "arr"
       /\ Len(v.el) = 2
       /\ IsMarkupKind(v.el[1])
       /\ IsString(v.el[2])

\* serde_json::from_value::<lsp_types::Hover>(result), of
\* Hover { contents: HoverContents, range: Option<Range> }, succeeds
IsHover(v) ==
    \/ v.t = "obj" /\ IsHoverContents(Member(v, <<99, 111, 110, 116, 101, 110, 116, 115>>))
       /\ IsOptionRange(Member(v, <<114, 97, 110, 103, 101>>))
    \/ v.t = "arr" /\ Len(v.el) = 2 /\ IsHoverContents(v.el[1])
       /\ (v.el[2].t = "null" \/ IsRange(v.el[2]))

\* The message of a parsed value: msg.get("id").and_then(Value::as_i64) of
\* reader_loop, and the members request() reads of it.  The result is
\* looked at as hover() deserializes it, the request the callers of the
\* framing specifications have in flight: "ok" for a Hover, "bad" for any
\* other value but null.
MessageOf(v) ==
    LET idv == Member(v, <<105, 100>>)
        result == Member(v, <<114, 101, 115, 117, 108, 116>>)
        hasError == Member(v, <<101, 114, 114, 111, 114>>).t # "none"
        hasMethod == Member(v, <<109, 101, 116, 104, 111, 100>>).t # "none"
        idt == IF AsI64(idv) THEN "int"
               ELSE IF idv.t \in {"uint", "nint", "float"} THEN "num"
               ELSE idv.t
    IN [idt  |-> idt,
        id   |-> IF idt # "int" THEN 0
                 ELSE IF idv.t = "nint" THEN 0 - Saturated(idv.ds)
                 ELSE Saturated(idv.ds),
        kind |-> IF hasError
                 THEN (IF result.t \notin {"none", "null"} THEN "both"
                       ELSE "error")
                 ELSE IF result.t = "null" THEN "null"
                 ELSE IF result.t # "none"
                 THEN (IF IsHover(result) THEN "ok" ELSE "bad")
                 ELSE IF hasMethod
                 THEN (IF idv.t = "none" THEN "note" ELSE "request")
                 ELSE "absent"]

\* serde_json::from_slice(&body): the message of the one value the body
\* holds; NoJson stands for the error "invalid JSON-RPC message".
ParseJson(body) ==
    LET v == ParseValue(body, 1, 128)
    IN IF v.ok /\ SkipWs(body, v.pos) > Len(body) THEN MessageOf(v.val)
       ELSE NoJson

\* What a reader step leaves alone.
ReaderFrame ==
    /\ UNCHANGED <<syncVars, shutVars, uriVars, fmtVars, toolVars, lockVars>>
    /\ UNCHANGED <<inp, src>>
    /\ UNCHANGED <<ctor, child, alive, next_id, stdinLock, stdinOpen, wire,
                   pc, op, id, outcome, deadAtStart, issued>>

\* reader_loop returns r.
FrameReturns(r) ==
    /\ reader' = "exited"
    /\ readerResult' = r
    /\ lastDisp' = NoDisp
    /\ UNCHANGED <<pending, rx, rstage, rlen, got>>

\* Mutant of SizeAccepted: a length equal to the maximum is refused too.
SizeAcceptedBelowMax(length) == length < MaxMessageSize

\* !(length > MAX_LSP_MESSAGE_SIZE)
SizeAccepted(length) == ~(length > MaxMessageSize)

\* Mutant of ZeroRead: a zero-byte read is an error once a header line of
\* the frame has been read.
ZeroReadStrict(n) == n = 0 /\ rlen = -1

\* n == 0: the stream has ended.
ZeroRead(n) == n = 0

\* One turn of the header loop: read_line, then the end of stream, the
\* blank line that ends the headers (with the checks on the length), a
\* Content-Length line, or any other line.  After the blank line and the
\* checks the body is allocated, let mut body = vec![0u8; length], and the
\* reader waits in read_exact.
FrameReadLine ==
    /\ reader = "loop"
    /\ rstage = "headers"
    /\ LET line == LineAt(inp, rpos)
           trimmed == Trim(line)
       IN IF ~IsUtf8(line)
          THEN /\ FrameReturns("err")
               /\ rpos' = rpos + Len(line)
          ELSE IF ZeroRead(Len(line))
          THEN /\ FrameReturns("eof")
               /\ rpos' = rpos
          ELSE /\ rpos' = rpos + Len(line)
               /\ IF trimmed = <<>>
                  THEN IF rlen = -1 \/ ~SizeAccepted(rlen)
                       THEN FrameReturns("err")
                       ELSE /\ rstage' = "body"
                            /\ lastDisp' = NoDisp
                            /\ UNCHANGED <<reader, readerResult, pending, rx,
                                           rlen, got>>
                  ELSE IF HasPrefix(trimmed, ContentLengthPrefix)
                  THEN LET n == ParseUsize(SubSeq(trimmed,
                                     Len(ContentLengthPrefix) + 1, Len(trimmed)))
                       IN IF n = -1
                          THEN FrameReturns("err")
                          ELSE /\ rlen' = n
                               /\ lastDisp' = NoDisp
                               /\ UNCHANGED <<reader, readerResult, pending,
                                              rx, rstage, got>>
                  ELSE /\ lastDisp' = NoDisp
                       /\ UNCHANGED <<reader, readerResult, pending, rx,
                                      rstage, rlen, got>>
    /\ ralloc' = IF rstage' = "body" THEN ralloc + rlen ELSE ralloc
    /\ ReaderFrame

\* The reader goes back to the headers of the next frame.
NextFrame ==
    /\ rstage' = "headers"
    /\ rlen' = -1

\* Mutant of HandleMessage: a message without an integer id resolves the
\* oldest pending request.
HandleMessageNoteResolves(v) ==
    IF v.idt = "int"
    THEN /\ rstage' = "dispatch"
         /\ lastDisp' = NoDisp
         /\ UNCHANGED <<pending, rx, rlen>>
    ELSE IF DOMAIN pending # {}
    THEN /\ Dispatch(CHOOSE k \in DOMAIN pending : \A j \in DOMAIN pending : k <= j,
                     v.kind)
         /\ NextFrame
    ELSE /\ lastDisp' = [id |-> 0, to |-> "notification"]
         /\ NextFrame
         /\ UNCHANGED <<pending, rx>>

\* Mutant of HandleMessage: a message with a method member is a request or
\* a notification of the server and resolves nothing.
HandleMessageByMethod(v) ==
    IF v.idt = "int" /\ v.kind \notin {"request", "note"}
    THEN /\ rstage' = "dispatch"
         /\ lastDisp' = NoDisp
         /\ UNCHANGED <<pending, rx, rlen>>
    ELSE /\ lastDisp' = [id |-> 0, to |-> "notification"]
         /\ NextFrame
         /\ UNCHANGED <<pending, rx>>

\* msg.get("id").and_then(Value::as_i64): with an integer id the reader
\* goes on to pending.lock().await, the message in hand; any other message
\* is logged as a notification and the outer loop starts over with
\* content_length = None.
HandleMessage(v) ==
    IF v.idt = "int"
    THEN /\ rstage' = "dispatch"
         /\ lastDisp' = NoDisp
         /\ UNCHANGED <<pending, rx, rlen>>
    ELSE /\ lastDisp' = [id |-> 0, to |-> "notification"]
         /\ NextFrame
         /\ UNCHANGED <<pending, rx>>

\* reader.read_exact(&mut body).await? into the body allocated at the end
\* of the headers; the body is parsed and the message classified.
FrameReadBody ==
    /\ reader = "loop"
    /\ rstage = "body"
    /\ ralloc' = ralloc
    /\ IF Len(inp) - rpos < rlen
       THEN /\ rpos' = Len(inp)
            /\ FrameReturns("err")
       ELSE LET body == SubSeq(inp, rpos + 1, rpos + rlen)
                v == ParseJson(body)
            IN /\ rpos' = rpos + rlen
               /\ IF v = NoJson
                  THEN FrameReturns("err")
                  ELSE /\ got' = Append(got, [body |-> body, val |-> v])
                       /\ HandleMessage(v)
                       /\ UNCHANGED <<reader, readerResult>>
    /\ ReaderFrame

\* Mutant of FrameDispatch: a response without a pending entry ends the
\* reader with an error.
FrameDispatchUnknownFatal ==
    /\ reader = "loop"
    /\ rstage = "dispatch"
    /\ LET v == got[Len(got)].val
       IN IF v.id \notin DOMAIN pending
          THEN FrameReturns("err")
          ELSE /\ Dispatch(v.id, v.kind)
               /\ NextFrame
               /\ UNCHANGED <<reader, readerResult, got>>
    /\ UNCHANGED <<rpos, ralloc>>
    /\ ReaderFrame

\* let mut map = pending.lock().await; map.remove(&id) and tx.send(msg), or
\* the warning for an unknown id; the reader, which has the message since
\* the body was read, takes this step once it has the lock, and the outer
\* loop starts over with content_length = None.
FrameDispatch ==
    /\ reader = "loop"
    /\ rstage = "dispatch"
    /\ LET v == got[Len(got)].val
       IN Dispatch(v.id, v.kind)
    /\ NextFrame
    /\ UNCHANGED <<reader, readerResult, rpos, ralloc, got>>
    /\ ReaderFrame

\* A ready client with one request of caller c1 in flight: a query made
\* with hover(), whose result is an Option<Hover>.
InFlightClient ==
    /\ ctor = "returned"
    /\ child = "running"
    /\ reader = "loop"
    /\ readerResult = "none"
    /\ alive = TRUE
    /\ next_id = 3
    /\ pending = MapInsert(EmptyMap, 2, "c1")
    /\ stdinLock = "free"
    /\ stdinOpen = TRUE
    /\ wire = HandshakeWire \o
              << [part |-> "hdr", id |-> 2, op |-> "query", by |-> "c1",
                  arg |-> NoArg],
                 [part |-> "body", id |-> 2, op |-> "query", by |-> "c1",
                  arg |-> NoArg] >>
    /\ pc = [t \in Tasks |-> IF t = "c1" THEN "await" ELSE "idle"]
    /\ op = [t \in Tasks |-> CASE t = Ctor -> "initialized"
                               [] t = "c1" -> "query"
                               [] OTHER    -> "none"]
    /\ id = [t \in Tasks |-> CASE t = Ctor -> FirstId
                               [] t = "c1" -> 2
                               [] OTHER    -> 0]
    /\ rx = [t \in Tasks |->
               CASE t = Ctor -> [st |-> "full",
                                 msg |-> [id |-> FirstId, kind |-> "ok"]]
                 [] t = "c1" -> EmptyRx
                 [] OTHER    -> NoRx]
    /\ outcome = [t \in Tasks |-> IF t = Ctor THEN "ok" ELSE "none"]
    /\ deadAtStart = [t \in Tasks |-> FALSE]
    /\ issued = <<FirstId, 2>>
    /\ lastDisp = NoDisp

\* The client, and the output of the sidecar its reader is about to read.
FrameInit ==
    /\ InFlightClient
    /\ InitSync
    /\ InitShut
    /\ InitUri
    /\ InitFmt
    /\ InitTool
    /\ InitLock
    /\ \E ps \in PieceSeqs(MaxPieces) :
          /\ src = ps
          /\ inp = Concat(ps)
    /\ rpos = 0
    /\ rstage = "headers"
    /\ rlen = -1
    /\ ralloc = 0
    /\ got = <<>>

FrameNext ==
    \/ FrameReadLine
    \/ FrameReadBody
    \/ FrameDispatch
    \/ ReaderStoreDead
    \/ ReaderDrain
    \/ AwaitResponse("c1")
    \/ AwaitClosed("c1")
    \/ AwaitTimeout("c1")
    \/ ReqAbandon("c1")

FrameSpec == FrameInit /\ [][FrameNext]_vars

\* Malformed frames: the reader of a client with one request in flight
\* reads output that holds a frame without a Content-Length line, one whose
\* length is no number, or one whose body is no JSON, while a second caller
\* issues a request of its own.

\* The pieces of the malformed output: a response to the request in flight,
\* a notification, and the three malformed frames.
FailPieces ==
    { FramePiece(CHOOSE v \in JsonValues : v.idt = "int" /\ v.id = 2 /\ v.kind = "ok"),
      FramePiece(CHOOSE v \in JsonValues : v.idt = "none"),
      RawPiece(<<88, 58, 32, 49>> \o CrLf \o CrLf),
      RawPiece(ContentLengthPrefix \o <<120>> \o CrLf),
      RawPiece(ContentLengthPrefix \o <<45, 49>> \o CrLf),
      RawPiece(FrameHeader(1) \o <<120>>) }

RECURSIVE FailSeqs(_)
FailSeqs(n) ==
    IF n = 0 THEN {<<>>}
    ELSE FailSeqs(n - 1) \cup
         {Append(ps, q) : ps \in FailSeqs(n - 1), q \in FailPieces}

FailInit ==
    /\ InFlightClient
    /\ InitSync
    /\ InitShut
    /\ InitUri
    /\ InitFmt
    /\ InitTool
    /\ InitLock
    /\ \E ps \in FailSeqs(MaxPieces) :
          /\ src = ps
          /\ inp = Concat(ps)
    /\ rpos = 0
    /\ rstage = "headers"
    /\ rlen = -1
    /\ ralloc = 0
    /\ got = <<>>

FailNext ==
    \/ FrameReadLine
    \/ FrameReadBody
    \/ FrameDispatch
    \/ ReaderStoreDead
    \/ ReaderDrain
    \/ ReqAlloc("c2")
    \/ ReqInsert("c2")
    \/ SendCheckAlive("c2")
    \/ SendLock("c2")
    \/ SendHeader("c2")
    \/ SendBody("c2")
    \/ SendFlush("c2")
    \/ \E t \in Callers : AwaitResponse(t)
    \/ \E t \in Callers : AwaitClosed(t)
    \/ \E t \in Callers : AwaitTimeout(t)
    \/ \E t \in Callers : ReqAbandon(t)

FailSpec == FailInit /\ [][FailNext]_vars

----------------------------------------------------------------------------
\* File URIs: file_uri, uri_to_path and the percent coding of paths.  A path
\* and a URI are the sequences of their bytes.

\* The variables of the client proper.
clientVars == <<ctor, child, reader, readerResult, alive, next_id, pending,
                stdinLock, stdinOpen, wire, pc, op, id, rx, outcome,
                deadAtStart, issued, lastDisp>>

\* Longest path given to file_uri.
MaxPathLen == 4

\* The bytes the paths are made of: / a space % 4 A and the two bytes of
\* U+00E9.
PathAlphabet == {47, 97, 32, 37, 52, 65, 195, 169}

RECURSIVE BytesOfLen(_)
BytesOfLen(n) ==
    IF n = 0 THEN {<<>>}
    ELSE {Append(bs, b) : bs \in BytesOfLen(n - 1), b \in PathAlphabet}

\* The arguments of file_uri: a &str holds valid UTF-8.
UriPaths == {bs \in UNION {BytesOfLen(n) : n \in 0..MaxPathLen} : IsUtf8(bs)}

\* "file://"
FileScheme == <<102, 105, 108, 101, 58, 47, 47>>

\* Path::is_absolute on a Unix target: the path has a root.
PathIsAbsolute(path) == Len(path) > 0 /\ path[1] = 47

IsAsciiAlphanumeric(b) ==
    \/ b >= 48 /\ b <= 57
    \/ b >= 65 /\ b <= 90
    \/ b >= 97 /\ b <= 122

IsUnreservedPathByte(b) ==
    IsAsciiAlphanumeric(b) \/ b = 45 \/ b = 46 \/ b = 95 \/ b = 126 \/ b = 47

\* hex_upper with lowercase letters.
HexLower(nibble) ==
    IF nibble >= 0 /\ nibble <= 9 THEN 48 + nibble
    ELSE IF nibble >= 10 /\ nibble <= 15 THEN 97 + (nibble - 10)
    ELSE 63

HexUpper(nibble) ==
    IF nibble >= 0 /\ nibble <= 9 THEN 48 + nibble
    ELSE IF nibble >= 10 /\ nibble <= 15 THEN 65 + (nibble - 10)
    ELSE 63

\* hex_value without the uppercase arm.
HexValueLowerOnly(b) ==
    IF b >= 48 /\ b <= 57 THEN b - 48
    ELSE IF b >= 97 /\ b <= 102 THEN b - 97 + 10
    ELSE -1

\* hex_value; -1 is None.
HexValue(b) ==
    IF b >= 48 /\ b <= 57 THEN b - 48
    ELSE IF b >= 97 /\ b <= 102 THEN b - 97 + 10
    ELSE IF b >= 65 /\ b <= 70 THEN b - 65 + 10
    ELSE -1

RECURSIVE PercentEncodePath(_)
PercentEncodePath(path) ==
    IF path = <<>> THEN <<>>
    ELSE LET b == path[1]
             head == IF IsUnreservedPathByte(b) THEN <<b>>
                     ELSE <<37, HexUpper(b \div 16), HexUpper(b % 16)>>
         IN head \o PercentEncodePath(Tail(path))

\* The loop of percent_decode_path from index i (counted from 0) with the
\* bytes decoded so far; ok is FALSE where the code returns None.
RECURSIVE DecodeLoop(_, _, _)
DecodeLoop(bytes, i, decoded) ==
    IF ~(i < Len(bytes)) THEN [ok |-> TRUE, bytes |-> decoded]
    ELSE IF bytes[i + 1] = 37
         THEN IF i + 2 >= Len(bytes) THEN [ok |-> FALSE, bytes |-> <<>>]
              ELSE LET hi == HexValue(bytes[i + 2])
                       lo == HexValue(bytes[i + 3])
                   IN IF hi < 0 \/ lo < 0 THEN [ok |-> FALSE, bytes |-> <<>>]
                      ELSE DecodeLoop(bytes, i + 3,
                                      Append(decoded, hi * 16 + lo))
         ELSE DecodeLoop(bytes, i + 1, Append(decoded, bytes[i + 1]))

PercentDecodePath(path) ==
    LET r == DecodeLoop(path, 0, <<>>)
    IN IF r.ok /\ IsUtf8(r.bytes) THEN r ELSE [ok |-> FALSE, bytes |-> <<>>]

\* The bytes a URI may hold besides percent triplets.
IsUriByte(b) ==
    \/ IsAsciiAlphanumeric(b)
    \/ b \in {45, 46, 95, 126}
    \/ b \in {33, 36, 38, 39, 40, 41, 42, 43, 44, 59, 61}
    \/ b \in {58, 64, 47}

RECURSIVE UriBytesParse(_)
UriBytesParse(bs) ==
    IF bs = <<>> THEN TRUE
    ELSE IF bs[1] = 37
         THEN /\ Len(bs) >= 3
              /\ HexValue(bs[2]) >= 0
              /\ HexValue(bs[3]) >= 0
              /\ UriBytesParse(SubSeq(bs, 4, Len(bs)))
         ELSE IsUriByte(bs[1]) /\ UriBytesParse(Tail(bs))

\* str::parse::<Uri> of a string that starts with "file://": the string is
\* kept as it is when it is a URI.
UriParse(bs) ==
    IF UriBytesParse(SubSeq(bs, Len(FileScheme) + 1, Len(bs)))
    THEN [ok |-> TRUE, bytes |-> bs]
    ELSE [ok |-> FALSE, bytes |-> <<>>]

file_uri(path) ==
    IF ~PathIsAbsolute(path) THEN [ok |-> FALSE, bytes |-> <<>>]
    ELSE UriParse(FileScheme \o PercentEncodePath(path))

uri_to_path(uri) ==
    LET path == IF HasPrefix(uri, FileScheme)
                THEN SubSeq(uri, Len(FileScheme) + 1, Len(uri))
                ELSE uri
        d == PercentDecodePath(path)
    IN IF d.ok THEN d.bytes ELSE path

UriFrame == UNCHANGED <<clientVars, syncVars, shutVars, frameVars, fmtVars,
                        toolVars, lockVars>>

\* file_uri(path)
FileUri ==
    /\ ustage = "input"
    /\ uuri' = file_uri(upath)
    /\ ustage' = IF uuri'.ok THEN "encoded" ELSE "rejected"
    /\ UNCHANGED <<upath, uback>>
    /\ UriFrame

\* uri_to_path(&uri)
UriToPath ==
    /\ ustage = "encoded"
    /\ uback' = uri_to_path(uuri.bytes)
    /\ ustage' = "decoded"
    /\ UNCHANGED <<upath, uuri>>
    /\ UriFrame

UriInit ==
    /\ ReadyClient
    /\ InitSync
    /\ InitShut
    /\ InitFrame
    /\ InitFmt
    /\ InitTool
    /\ InitLock
    /\ upath \in UriPaths
    /\ uuri = [ok |-> FALSE, bytes |-> <<>>]
    /\ uback = <<>>
    /\ ustage = "input"

UriNext == FileUri \/ UriToPath

UriSpec == UriInit /\ [][UriNext]_vars

----------------------------------------------------------------------------
\* Positions in the reports of the tools: format_location and the lines of
\* the diagnostics report print line + 1 and character + 1, computed on u32.

\* 2^16: a u32 is hi * Half + lo.
Half == 65536

\* The halves the positions are drawn from.
HalfSamples == {0, 9, Half - 1}

U32Samples == {U32(hi, lo) : hi \in HalfSamples, lo \in HalfSamples}

\* Whether the build checks arithmetic overflow (it does under the dev
\* profile and does not under the release profile).
OverflowChecks == {"on", "off"}

\* x + 1 on u32: the wrapped sum and whether it overflowed.
AddOne(x) ==
    LET lo == x.lo + 1
        hi == x.hi + (lo \div Half)
    IN [overflow |-> (hi \div Half) = 1,
        val |-> U32(hi % Half, lo % Half)]

\* Display of a u32: its decimal digits, most significant first.
RECURSIVE Decimal(_)
Decimal(x) ==
    LET qhi == x.hi \div 10
        mid == (x.hi % 10) * Half + x.lo
        q == U32(qhi + ((mid \div 10) \div Half), (mid \div 10) % Half)
        d == mid % 10
    IN IF x.hi = 0 /\ x.lo < 10 THEN <<x.lo>>
       ELSE Append(Decimal(q), d)

\* What the two format! calls print for a position; the addition panics
\* when it overflows under overflow checks and wraps otherwise.
Printed(form, pos, build) ==
    LET l == AddOne(pos.line)
        c == AddOne(pos.character)
    IN IF build = "on" /\ (l.overflow \/ c.overflow)
       THEN [form |-> form, panic |-> TRUE, line |-> <<>>, character |-> <<>>]
       ELSE [form |-> form, panic |-> FALSE,
             line |-> Decimal(l.val), character |-> Decimal(c.val)]

FmtFrame == UNCHANGED <<clientVars, syncVars, shutVars, frameVars, uriVars,
                        toolVars, lockVars>>

\* format_location(&loc)
FormatLocation ==
    /\ fstage = "input"
    /\ fout' = Printed("location", fpos, fbuild)
    /\ fstage' = "printed"
    /\ UNCHANGED <<fbuild, fpos>>
    /\ FmtFrame

\* the closure over the items of a diagnostics report
FormatDiagnostic ==
    /\ fstage = "input"
    /\ fout' = Printed("diagnostic", fpos, fbuild)
    /\ fstage' = "printed"
    /\ UNCHANGED <<fbuild, fpos>>
    /\ FmtFrame

FmtInit ==
    /\ ReadyClient
    /\ InitSync
    /\ InitShut
    /\ InitFrame
    /\ InitUri
    /\ InitTool
    /\ InitLock
    /\ fbuild \in OverflowChecks
    /\ fpos \in [line : U32Samples, character : U32Samples]
    /\ fout = [form |-> "none", panic |-> FALSE, line |-> <<>>,
               character |-> <<>>]
    /\ fstage = "input"

FmtNext == FormatLocation \/ FormatDiagnostic

FmtSpec == FmtInit /\ [][FmtNext]_vars

----------------------------------------------------------------------------
\* The tool operations: diagnostics, hover, goto_definition and
\* find_references.  Each validates file_path, calls ensure_file_open and
\* then issues its request.

\* Tool calls made in all.
MaxTools == 2

\* The file_path arguments: the files on disk, an absolute path of no file
\* and a relative path.
ToolPaths == Paths \cup {<<"/", "c">>, <<"a">>}

\* Path::exists
Exists(p) == p \in DOMAIN disk

\* validate_file_path(path).is_ok()
ValidFilePath(p) == IsAbsolute(p) /\ Exists(p)

OpenedOk(res) == res \in {"unchanged", "sent"}

ToolFrame ==
    /\ lastDisp' = NoDisp
    /\ UNCHANGED <<shutVars, frameVars, uriVars, fmtVars, lockVars>>
    /\ UNCHANGED <<arg, opened, disk, doc, syncCalled, syncLog, nsync, nedits>>
    /\ UNCHANGED <<ctor, child, reader, readerResult, alive, next_id, pending,
                   stdinLock, stdinOpen, wire, op, id, rx, outcome,
                   deadAtStart, issued>>

\* A tool operation is called and validate_file_path(file)? is evaluated: a
\* path that is relative or names no file returns invalid_params.
ToolStart(t, tl, p) ==
    /\ t \in Callers
    /\ ctor = "returned"
    /\ tstage[t] \in {"none", "returned", "panicked"}
    /\ pc[t] \in {"idle", "done"}
    /\ ntool < MaxTools
    /\ ntool' = ntool + 1
    /\ tool' = [tool EXCEPT ![t] = tl]
    /\ tpath' = [tpath EXCEPT ![t] = p]
    /\ tmark' = [tmark EXCEPT ![t] = Len(wire)]
    /\ syncRes' = [syncRes EXCEPT ![t] = "none"]
    /\ IF ValidFilePath(p)
       THEN /\ tstage' = [tstage EXCEPT ![t] = "sync"]
            /\ tres' = [tres EXCEPT ![t] = "none"]
            /\ pc' = [pc EXCEPT ![t] = "idle"]
       ELSE /\ tstage' = [tstage EXCEPT ![t] = "returned"]
            /\ tres' = [tres EXCEPT ![t] = "invalid_params"]
            /\ pc' = pc
    /\ ToolFrame

\* self.lsp.ensure_file_open(file) is called.
ToolEnsure(t) ==
    /\ tstage[t] = "sync"
    /\ pc[t] = "idle"
    /\ SyncStart(t, tpath[t])

\* Mutant of ToolSynced: the result of ensure_file_open is not looked at.
ToolSyncedIgnoresErr(t) ==
    /\ tstage[t] = "sync"
    /\ pc[t] = "done"
    /\ tstage' = [tstage EXCEPT ![t] = "request"]
    /\ pc' = [pc EXCEPT ![t] = "idle"]
    /\ UNCHANGED <<tool, tpath, tres, tmark, ntool, syncRes>>
    /\ ToolFrame

\* ensure_file_open returned.  On Err the tool returns "Failed to open
\* file"; on Ok the parameters of the request are built, with file_uri(file)
\* (directly, or through text_doc_position), whose error is returned too.
ToolSynced(t) ==
    /\ tstage[t] = "sync"
    /\ pc[t] = "done"
    /\ IF ~OpenedOk(syncRes[t])
       THEN /\ tstage' = [tstage EXCEPT ![t] = "returned"]
            /\ tres' = [tres EXCEPT ![t] = "open_failed"]
            /\ pc' = pc
       ELSE IF ~IsAbsolute(tpath[t])
       THEN /\ tstage' = [tstage EXCEPT ![t] = "returned"]
            /\ tres' = [tres EXCEPT ![t] =
                          IF tool[t] = "diagnostics" THEN "invalid_params"
                          ELSE "request_failed"]
            /\ pc' = pc
       ELSE /\ tstage' = [tstage EXCEPT ![t] = "request"]
            /\ tres' = tres
            /\ pc' = [pc EXCEPT ![t] = "idle"]
    /\ UNCHANGED <<tool, tpath, tmark, ntool, syncRes>>
    /\ ToolFrame

\* self.lsp.request::<R>(params) is entered.
ToolRequest(t) ==
    /\ tstage[t] = "request"
    /\ pc[t] = "idle"
    /\ ReqAlloc(t)

\* The positions the result of a request holds, in the order the tool
\* formats them: none, or one.
ResultPositions ==
    {<<>>} \cup {<<p>> : p \in [line : U32Samples, character : U32Samples]}

\* How a tool prints the positions of its result: diagnostics in its
\* closure over the items, goto_definition and find_references through
\* format_location.
ToolForm(tl) == IF tl = "diagnostics" THEN "diagnostic" ELSE "location"

\* The report of tool tl on a result of the positions ps panics: hover
\* prints no position, the others add one to every line and character.
ReportPanics(tl, ps, build) ==
    /\ tl # "hover"
    /\ \E i \in 1..Len(ps) : Printed(ToolForm(tl), ps[i], build).panic

\* request() returned: Err becomes the tool error "... failed"; Ok becomes
\* the report of the tool, unless printing a position of the result panics
\* and the call returns nothing.
ToolReturn(t) ==
    /\ tstage[t] = "request"
    /\ pc[t] = "done"
    /\ \E ps \in ResultPositions :
          IF outcome[t] = "ok" /\ ReportPanics(tool[t], ps, fbuild)
          THEN /\ tstage' = [tstage EXCEPT ![t] = "panicked"]
               /\ tres' = [tres EXCEPT ![t] = "panicked"]
          ELSE /\ tstage' = [tstage EXCEPT ![t] = "returned"]
               /\ tres' = [tres EXCEPT ![t] =
                             IF outcome[t] = "ok" THEN "success"
                             ELSE "request_failed"]
    /\ UNCHANGED <<tool, tpath, tmark, ntool, syncRes, pc>>
    /\ ToolFrame

\* reader_loop reads the response to a request that is waiting, carrying a
\* result or an error.
ToolResponse ==
    /\ reader = "loop"
    /\ \E k \in DOMAIN pending, kind \in {"ok", "error"} : Dispatch(k, kind)
    /\ UNCHANGED <<syncVars, shutVars, restVars>>
    /\ UNCHANGED <<ctor, child, reader, readerResult, alive, next_id, stdinLock,
                   stdinOpen, wire, pc, op, id, outcome, deadAtStart, issued>>

\* A ready client and no tool call yet; the build has overflow checks on
\* (the dev profile) or off (the release profile).
ToolInit ==
    /\ ReadyClient
    /\ InitSync
    /\ InitShut
    /\ InitFrame
    /\ InitUri
    /\ InitTool
    /\ InitLock
    /\ fbuild \in OverflowChecks
    /\ fpos = [line |-> U32(0, 0), character |-> U32(0, 0)]
    /\ fout = [form |-> "none", panic |-> FALSE, line |-> <<>>,
               character |-> <<>>]
    /\ fstage = "input"

\* The tasks that call tools.
ToolTasks == {"c1"}

ToolNext ==
    \/ \E t \in ToolTasks, tl \in Tools, p \in ToolPaths : ToolStart(t, tl, p)
    \/ \E t \in ToolTasks : ToolEnsure(t)
    \/ \E t \in ToolTasks : SyncRead(t)
    \/ \E t \in ToolTasks : SyncCheck(t)
    \/ \E t \in ToolTasks : SyncDone(t)
    \/ \E t \in ToolTasks : ToolSynced(t)
    \/ \E t \in ToolTasks : ToolRequest(t)
    \/ \E t \in ToolTasks : ReqInsert(t)
    \/ \E t \in ToolTasks : SendCheckAlive(t)
    \/ \E t \in ToolTasks : SendLock(t)
    \/ \E t \in ToolTasks : SendHeader(t)
    \/ \E t \in ToolTasks : SendBody(t)
    \/ \E t \in ToolTasks : SendFlush(t)
    \/ \E t \in ToolTasks : AwaitResponse(t)
    \/ \E t \in ToolTasks : AwaitTimeout(t)
    \/ \E t \in ToolTasks : ReqAbandon(t)
    \/ \E t \in ToolTasks : ToolReturn(t)
    \/ ToolResponse
    \/ StdinBreaks

ToolSpec == ToolInit /\ [][ToolNext]_vars

----------------------------------------------------------------------------
\* The locks of the client: which mutex each piece of code takes, and where
\* it lets go of it.  A task waits at a "_lock" position for the mutex to
\* be free and is at the "_held" position while it holds the guard.

\* The mutex a task at position p waits for or holds.
LockAt(p) ==
    CASE p \in {"ins_lock", "ins_held", "rm_lock", "rm_held",
                "map_lock", "map_held", "exit_lock", "exit_held"} -> "pending"
      [] p \in {"stdin_lock", "stdin_held"} -> "child_stdin"
      [] p \in {"open_lock", "open_held"} -> "opened_files"
      [] p \in {"child_lock", "child_held"} -> "child"
      [] OTHER -> "none"

WaitPositions == {"ins_lock", "rm_lock", "map_lock", "exit_lock", "stdin_lock",
                  "open_lock", "child_lock"}

\* The position with the guard in hand that follows a waiting position.
HeldAfter(p) ==
    CASE p = "ins_lock" -> "ins_held"
      [] p = "rm_lock" -> "rm_held"
      [] p = "map_lock" -> "map_held"
      [] p = "exit_lock" -> "exit_held"
      [] p = "stdin_lock" -> "stdin_held"
      [] p = "open_lock" -> "open_held"
      [] p = "child_lock" -> "child_held"

LockFrame == UNCHANGED <<clientVars, syncVars, shutVars, frameVars, uriVars,
                         fmtVars, toolVars>>

\* The operations a task may call: the main task calls request and notify
\* while it constructs the client, and shutdown at the end.
OpsOf(t) == IF t = Ctor THEN {"request", "notify", "shutdown"}
                       ELSE {"request", "notify", "ensure_file_open"}

\* A task calls an operation of the client.
LockBegin(t, o) ==
    /\ lpc[t] = "idle"
    /\ o \in OpsOf(t)
    /\ lop' = [lop EXCEPT ![t] = o]
    /\ lcall' = [lcall EXCEPT ![t] =
                   CASE o \in {"request", "shutdown"} -> "request"
                     [] o = "notify" -> "notify"
                     [] OTHER -> "none"]
    /\ lpc' = [lpc EXCEPT ![t] =
                 CASE o \in {"request", "shutdown"} -> "ins_lock"
                   [] o = "notify" -> "send"
                   [] OTHER -> "open_lock"]
    /\ holder' = holder
    /\ LockFrame

\* mutex.lock().await completes: the mutex was free and the task has the
\* guard.
Acquire(t) ==
    /\ lpc[t] \in WaitPositions
    /\ holder[LockAt(lpc[t])] = "free"
    /\ holder' = [holder EXCEPT ![LockAt(lpc[t])] = t]
    /\ lpc' = [lpc EXCEPT ![t] = HeldAfter(lpc[t])]
    /\ UNCHANGED <<lop, lcall>>
    /\ LockFrame

\* request() or notify() returns to its caller: shutdown() goes on with the
\* exit notification and then with the child, any other caller is done.
Returns(t) ==
    IF lop[t] = "shutdown"
    THEN IF lcall[t] = "request"
         THEN /\ lcall' = [lcall EXCEPT ![t] = "notify"]
              /\ lpc' = [lpc EXCEPT ![t] = "send"]
              /\ lop' = lop
         ELSE /\ lcall' = [lcall EXCEPT ![t] = "none"]
              /\ lpc' = [lpc EXCEPT ![t] = "child_lock"]
              /\ lop' = lop
    ELSE /\ lcall' = [lcall EXCEPT ![t] = "none"]
         /\ lpc' = [lpc EXCEPT ![t] = "idle"]
         /\ lop' = [lop EXCEPT ![t] = "none"]

\* send_message() failed: request() goes to remove its entry, notify()
\* returns the error.
SendFailed(t) ==
    IF lcall[t] = "request"
    THEN /\ lpc' = [lpc EXCEPT ![t] = "rm_lock"]
         /\ UNCHANGED <<lop, lcall>>
    ELSE Returns(t)

\* self.pending.lock().await.insert(id, tx); the guard is a temporary of
\* the statement.
PendingInsertDone(t) ==
    /\ lpc[t] = "ins_held"
    /\ holder' = [holder EXCEPT !["pending"] = "free"]
    /\ lpc' = [lpc EXCEPT ![t] = "send"]
    /\ UNCHANGED <<lop, lcall>>
    /\ LockFrame

\* send_message: the liveness check, before the pipe is locked.
SendAliveCheck(t) ==
    /\ lpc[t] = "send"
    /\ \/ /\ lpc' = [lpc EXCEPT ![t] = "stdin_lock"]
          /\ UNCHANGED <<lop, lcall>>
       \/ SendFailed(t)
    /\ holder' = holder
    /\ LockFrame

\* send_message: the writes and the flush under the guard of the pipe; the
\* guard is dropped when the function returns, with Ok or with the error.
StdinDone(t) ==
    /\ lpc[t] = "stdin_held"
    /\ holder' = [holder EXCEPT !["child_stdin"] = "free"]
    /\ \/ IF lcall[t] = "request"
          THEN /\ lpc' = [lpc EXCEPT ![t] = "await"]
               /\ UNCHANGED <<lop, lcall>>
          ELSE Returns(t)
       \/ SendFailed(t)
    /\ LockFrame

\* timeout(LSP_REQUEST_TIMEOUT, rx).await: a response, or the closed
\* channel or the timeout after which the entry is removed.
AwaitDone(t) ==
    /\ lpc[t] = "await"
    /\ \/ Returns(t)
       \/ /\ lpc' = [lpc EXCEPT ![t] = "rm_lock"]
          /\ UNCHANGED <<lop, lcall>>
    /\ holder' = holder
    /\ LockFrame

\* self.pending.lock().await.remove(&id); then the error is returned.
PendingRemoveDone(t) ==
    /\ lpc[t] = "rm_held"
    /\ holder' = [holder EXCEPT !["pending"] = "free"]
    /\ Returns(t)
    /\ LockFrame

\* Mutant of OpenedDone: the guard of the open-document map is kept while
\* the notification is sent.
OpenedKept(t) ==
    /\ lpc[t] = "open_held"
    /\ holder' = holder
    /\ \/ /\ lpc' = [lpc EXCEPT ![t] = "idle"]
          /\ lop' = [lop EXCEPT ![t] = "none"]
          /\ lcall' = lcall
       \/ /\ lpc' = [lpc EXCEPT ![t] = "send"]
          /\ lcall' = [lcall EXCEPT ![t] = "notify"]
          /\ lop' = lop
    /\ LockFrame

\* ensure_file_open under the guard of the open-document map: unchanged
\* content returns, otherwise drop(opened) and the notification is sent.
OpenedDone(t) ==
    /\ lpc[t] = "open_held"
    /\ holder' = [holder EXCEPT !["opened_files"] = "free"]
    /\ \/ /\ lpc' = [lpc EXCEPT ![t] = "idle"]
          /\ lop' = [lop EXCEPT ![t] = "none"]
          /\ lcall' = lcall
       \/ /\ lpc' = [lpc EXCEPT ![t] = "send"]
          /\ lcall' = [lcall EXCEPT ![t] = "notify"]
          /\ lop' = lop
    /\ LockFrame

\* shutdown(): the wait for the child, and the kill, under the guard of the
\* child handle, which is dropped when shutdown() returns.
ChildDone(t) ==
    /\ lpc[t] = "child_held"
    /\ holder' = [holder EXCEPT !["child"] = "free"]
    /\ lpc' = [lpc EXCEPT ![t] = "finished"]
    /\ lop' = [lop EXCEPT ![t] = "none"]
    /\ lcall' = lcall
    /\ LockFrame

\* reader_loop has read a message with an integer id and goes to the map.
ReaderWantsMap ==
    /\ lpc[Reader] = "read"
    /\ lpc' = [lpc EXCEPT ![Reader] = "map_lock"]
    /\ UNCHANGED <<holder, lop, lcall>>
    /\ LockFrame

\* map.remove(&id) and tx.send(msg); the guard goes at the end of the block.
ReaderMapDone ==
    /\ lpc[Reader] = "map_held"
    /\ holder' = [holder EXCEPT !["pending"] = "free"]
    /\ lpc' = [lpc EXCEPT ![Reader] = "read"]
    /\ UNCHANGED <<lop, lcall>>
    /\ LockFrame

\* reader_loop returned; the task stores the flag and goes to clear the map.
ReaderLoopEnds ==
    /\ lpc[Reader] = "read"
    /\ lpc' = [lpc EXCEPT ![Reader] = "exit_lock"]
    /\ UNCHANGED <<holder, lop, lcall>>
    /\ LockFrame

\* map.clear(); the reader task ends.
ReaderExitDone ==
    /\ lpc[Reader] = "exit_held"
    /\ holder' = [holder EXCEPT !["pending"] = "free"]
    /\ lpc' = [lpc EXCEPT ![Reader] = "done"]
    /\ UNCHANGED <<lop, lcall>>
    /\ LockFrame

\* The steps of one task.
LockStep(t) ==
    \/ \E o \in {"request", "notify", "shutdown", "ensure_file_open"} :
          t \in Tasks /\ LockBegin(t, o)
    \/ Acquire(t)
    \/ t \in Tasks /\ PendingInsertDone(t)
    \/ t \in Tasks /\ SendAliveCheck(t)
    \/ t \in Tasks /\ StdinDone(t)
    \/ t \in Tasks /\ AwaitDone(t)
    \/ t \in Tasks /\ PendingRemoveDone(t)
    \/ t \in Tasks /\ OpenedDone(t)
    \/ t \in Tasks /\ ChildDone(t)
    \/ t = Reader /\ ReaderWantsMap
    \/ t = Reader /\ ReaderMapDone
    \/ t = Reader /\ ReaderLoopEnds
    \/ t = Reader /\ ReaderExitDone

LockInit == ReadyClient /\ InitSync /\ InitShut /\ InitRest

LockNext == \E t \in LockTasks : LockStep(t)

LockSpec == LockInit /\ [][LockNext]_vars

----------------------------------------------------------------------------
\* Properties

Returned(t, how) == pc[t] = "done" /\ outcome[t] = how

WrittenBy(t) == {i \in 1..Len(wire) : wire[i].by = t}

\* C1: a message bearing id k is delivered only to the waiter that request()
\* registered under k: whatever a task's receiver holds carries the id the
\* task embedded in its own request, and the reader's delivery names that
\* task and that id, whatever the order in which responses arrive.
C1_CorrelationById ==
    /\ \A t \in Tasks : rx[t].st = "full" => rx[t].msg.id = id[t]
    /\ lastDisp.to \in Tasks =>
         /\ id[lastDisp.to] = lastDisp.id
         /\ rx[lastDisp.to].st = "full"
         /\ rx[lastDisp.to].msg.id = lastDisp.id

\* Two requests are in flight and the later one is answered first.
C1_Witness ==
    \E t \in Callers, u \in Callers :
        /\ id[t] < id[u]
        /\ pc[t] = "await" /\ rx[t].st = "empty"
        /\ pc[u] = "await" /\ rx[u].st = "full"
        /\ lastDisp = [id |-> id[u], to |-> u]

\* C2: request ids start at 1, are handed out strictly increasing in the
\* order of the allocations, are pairwise distinct and are never reused,
\* also after a request failed or timed out.
C2_IdsUniqueMonotonic ==
    /\ Len(issued) > 0 => issued[1] = 1
    /\ \A i \in 1..Len(issued), j \in 1..Len(issued) :
         i < j => issued[i] < issued[j]
    /\ \A t \in Tasks, u \in Tasks :
         (t # u /\ id[t] # 0) => id[t] # id[u]
    /\ \A t \in Tasks : id[t] # 0 => id[t] < next_id

\* A request timed out and a later request was given a fresh id.
C2_Witness ==
    \E t \in Callers, u \in Callers :
        /\ Returned(t, "timeout")
        /\ id[u] > id[t]
        /\ Len(issued) = MaxId

\* C3: a request that timed out has returned the timeout error with its id
\* gone from the pending map, and a response for that id read afterwards is
\* discarded as unmatched: no receiver changes, no task holds that message.
C3_TimeoutCleanup ==
    /\ [](\A t \in Tasks : Returned(t, "timeout") =>
            /\ id[t] \notin DOMAIN pending
            /\ \A u \in Tasks : rx[u].msg.id # id[t])
    /\ [][\A t \in Tasks :
            (Returned(t, "timeout") /\ lastDisp'.id = id[t]) =>
                /\ lastDisp'.to = "unmatched"
                /\ rx' = rx
                /\ pending' = pending]_vars

\* A response for the id of a timed-out request was just read and dropped.
C3_Witness ==
    \E t \in Callers :
        /\ Returned(t, "timeout")
        /\ lastDisp = [id |-> id[t], to |-> "unmatched"]

\* C4: a request() that begins with the liveness flag already false writes
\* nothing to the pipe, never reaches the write or the wait, returns the
\* send error, and its id is not in the pending map once it has returned.
C4_PostDeathFailure ==
    \A t \in Tasks : deadAtStart[t] =>
        /\ \A i \in 1..Len(wire) : wire[i].id # id[t]
        /\ pc[t] \in {"insert", "send_check", "abandon", "done"}
        /\ pc[t] = "done" =>
             /\ outcome[t] = "send_err"
             /\ id[t] \notin DOMAIN pending

\* A request issued after the flag was cleared has returned.
C4_Witness ==
    \E t \in Callers : deadAtStart[t] /\ ~alive /\ pc[t] = "done"

\* C5: when the reader task finishes its exit path, after end of stream as
\* after an error, the flag is false and the step that ends it empties the
\* pending map and closes every waiting receiver; a task waiting on a closed
\* receiver leaves the wait with the connection-lost error and never with a
\* response.
C5_ReaderExitDrains ==
    /\ [](reader \in {"flagged", "done"} => ~alive)
    /\ [][(reader # "done" /\ reader' = "done") =>
            /\ alive' = FALSE
            /\ pending' = EmptyMap
            /\ \A k \in DOMAIN pending :
                 rx[pending[k]].st = "empty" => rx'[pending[k]].st = "closed"]_vars
    /\ [][\A t \in Tasks :
            (pc[t] = "await" /\ rx[t].st = "closed") =>
                /\ rx'[t].st # "full"
                /\ pc'[t] # "await" => outcome'[t] = "closed"]_vars

\* The reader ended at end of stream while a request was waiting, and that
\* request has returned the connection-lost error.
C5_Witness ==
    /\ reader = "done"
    /\ readerResult = "eof"
    /\ \E t \in Callers : Returned(t, "closed") /\ ~deadAtStart[t]

\* C6: whatever the interleaving of a task's request() steps with the
\* reader's exit steps, once the drain has run no task waits on an open,
\* empty receiver: an entry inserted before the drain was closed by it, an
\* entry inserted after it belongs to a task that is about to fail on the
\* liveness check (or is removing it), so nobody waits for the timeout.
C6_NoWaiterSurvivesDrain ==
    reader = "done" =>
        \A t \in Tasks :
            /\ pc[t] = "await" => rx[t].st # "empty"
            /\ (id[t] \in DOMAIN pending /\ pending[id[t]] = t) =>
                 pc[t] \in {"send_check", "abandon"}

\* Both interleavings at once: one task passed the liveness check before the
\* flag was cleared and had its entry drained while waiting, another inserted
\* its entry after the drain.
C6_Witness ==
    /\ reader = "done"
    /\ \E t \in Callers, u \in Callers :
        /\ pc[t] = "await" /\ rx[t].st = "closed" /\ ~deadAtStart[t]
        /\ pc[u] = "send_check" /\ id[u] \in DOMAIN pending

FrameOf(c) == [id |-> c.id, op |-> c.op, by |-> c.by, arg |-> c.arg]

\* C7: the chunks on the pipe are whole frames back to back: a body directly
\* follows the header of the same message, and a header is directly followed
\* by the body of the same message.  Only the last chunk may be a header
\* without its body, and then its writer is still inside the critical
\* section or the pipe has failed (no byte is written after that).
C7_FramesNotInterleaved ==
    \A i \in 1..Len(wire) :
        /\ wire[i].part = "body" =>
             /\ i > 1
             /\ wire[i - 1].part = "hdr"
             /\ FrameOf(wire[i - 1]) = FrameOf(wire[i])
        /\ wire[i].part = "hdr" =>
             IF i < Len(wire)
             THEN /\ wire[i + 1].part = "body"
                  /\ FrameOf(wire[i + 1]) = FrameOf(wire[i])
             ELSE \/ pc[wire[i].by] = "send_body" /\ stdinLock = wire[i].by
                  \/ ~stdinOpen

\* Contention: one writer is between its header and its body while another
\* task waits for the stdin guard.
C7_Witness ==
    \E t \in Callers, u \in Callers :
        /\ t # u
        /\ pc[t] = "send_body"
        /\ wire[Len(wire)] = [part |-> "hdr", id |-> id[t], op |-> "query", by |-> t,
                           arg |-> NoArg]
        /\ pc[u] = "send_lock"

Written(part, o) == \E i \in 1..Len(wire) : wire[i].part = part /\ wire[i].op = o

\* C8: construction order.  Nothing is written before the reader task runs;
\* the first frame is the initialize request with id 1; "initialized" is
\* written only once the constructor holds a successful response to it; the
\* client is returned only after "initialized" was sent; and until the
\* client is returned every chunk on the pipe is one of those two messages.
C8_HandshakeOrder ==
    /\ wire # <<>> => reader # "none"
    /\ wire # <<>> =>
         wire[1] = [part |-> "hdr", id |-> FirstId, op |-> "initialize", by |-> Ctor,
                    arg |-> NoArg]
    /\ Written("hdr", "initialized") =>
         /\ rx[Ctor] = [st |-> "full", msg |-> [id |-> FirstId, kind |-> "ok"]]
         /\ outcome[Ctor] = "ok"
         /\ Written("body", "initialize")
    /\ ctor = "returned" =>
         /\ Written("hdr", "initialized")
         /\ Written("body", "initialized")
    /\ ctor # "returned" =>
         /\ \A i \in 1..Len(wire) :
              wire[i].by = Ctor /\ wire[i].op \in {"initialize", "initialized"}
         /\ \A c \in Callers : pc[c] = "idle"
    /\ \A i \in 1..Len(wire), j \in 1..Len(wire) :
         (wire[i].op = "initialize" /\ wire[j].op = "initialized") => i < j

\* The handshake is complete and a caller's request is on the pipe after it.
C8_Witness ==
    /\ ctor = "returned"
    /\ Len(wire) >= 6
    /\ wire[3].op = "initialized"
    /\ wire[5].op = "query"

\* C9: when construction fails after the sidecar was spawned, the process
\* has been killed.
C9_FailedCtorKillsChild ==
    (ctor = "failed" /\ child # "none") => child = "killed"

\* C10: the constructor returns a client only when the initialize request
\* got a response without error and "initialized" was sent; when it fails
\* (spawn failure included) no task ever gets to use a client.
C10_ReturnedOnlyAfterHandshake ==
    /\ ctor = "returned" =>
         /\ rx[Ctor].st = "full"
         /\ rx[Ctor].msg.kind \notin {"error", "none"}
         /\ outcome[Ctor] = "ok"
         /\ \E i \in 1..Len(wire) :
              /\ i > 1
              /\ wire[i] = [part |-> "body", id |-> 0, op |-> "initialized", by |-> Ctor,
                           arg |-> NoArg]
              /\ wire[i - 1].part = "hdr" /\ wire[i - 1].op = "initialized"
    /\ ctor # "returned" =>
         \A c \in Callers : pc[c] = "idle" /\ id[c] = 0 /\ WrittenBy(c) = {}
    /\ (ctor = "failed" /\ child = "none") => wire = <<>> /\ reader = "none"

\* The constructor has returned a client.
C10_Witness ==
    /\ ctor = "returned"
    /\ outcome[Ctor] = "ok"
    /\ Written("body", "initialized")


----------------------------------------------------------------------------
\* Document synchronisation (ensure_file_open)

\* Positions on the pipe of the bodies of document notifications for path p.
DocBodies(p) ==
    {k \in 1..Len(wire) : wire[k].part = "body" /\ wire[k].arg.path = p}

\* Passes through the opened_files section for path p that decided to send.
SentPasses(p) ==
    {i \in 1..Len(syncLog) : syncLog[i].path = p /\ syncLog[i].sent # "none"}

\* The last pass before pass i, for the same path, that decided to send;
\* 0 when pass i is the first access of the path.
LastSent(i) ==
    LET S == {j \in SentPasses(syncLog[i].path) : j < i}
    IN IF S = {} THEN 0 ELSE CHOOSE j \in S : \A k \in S : k <= j

\* No caller is inside ensure_file_open() and no write has failed.
SyncQuiet ==
    /\ stdinOpen
    /\ \A t \in Callers : pc[t] \in {"idle", "done"}
    /\ \A t \in Callers : syncRes[t] # "send_err"

\* C11: the first call for a path decides on a didOpen with version 0; a
\* call whose content equals the content last announced sends nothing; a
\* call whose content differs decides on exactly one didChange with the
\* full new text and the previous version plus 1.  Each decision puts at
\* most one notification on the pipe, carrying exactly the decided path,
\* version and text, and exactly one once all calls have returned Ok.
C11_DedupIdempotence ==
    /\ \A i \in 1..Len(syncLog) :
         LET e == syncLog[i]
             j == LastSent(i)
         IN IF j = 0
            THEN e.sent = "didOpen" /\ e.version = 0
            ELSE IF e.text = syncLog[j].text
                 THEN e.sent = "none"
                 ELSE e.sent = "didChange"
                      /\ e.version = syncLog[j].version + 1
    /\ \A p \in Paths :
         /\ \A k \in DocBodies(p) :
              \E i \in SentPasses(p) :
                 /\ wire[k].op = syncLog[i].sent
                 /\ wire[k].by = syncLog[i].by
                 /\ wire[k].arg = [path |-> p, version |-> syncLog[i].version,
                                   text |-> syncLog[i].text]
         /\ \A k1, k2 \in DocBodies(p) :
              wire[k1].arg.version = wire[k2].arg.version => k1 = k2
         /\ Cardinality(DocBodies(p)) <= Cardinality(SentPasses(p))
         /\ SyncQuiet => Cardinality(DocBodies(p)) = Cardinality(SentPasses(p))

\* Three calls in a row for one path, the file edited before the third:
\* didOpen version 0, nothing, didChange version 1, both on the pipe.
C11_Witness ==
    /\ SyncQuiet
    /\ Len(syncLog) = 3
    /\ \A i \in 1..3 : syncLog[i].path = syncLog[1].path
    /\ syncLog[1].sent = "didOpen"
    /\ syncLog[2].sent = "none"
    /\ syncLog[3].sent = "didChange"
    /\ syncLog[3].version = 1
    /\ syncLog[3].text # syncLog[1].text
    /\ Cardinality(DocBodies(syncLog[1].path)) = 2

\* A step of task t through the opened_files section.
PassesSection(t) == pc[t] = "sync_lock" /\ pc'[t] # "sync_lock"

\* C12: a record exists only for paths ensure_file_open() was called for;
\* the record of a path is created with version 0 by the first pass for
\* it, its version grows by exactly 1 in a pass whose fingerprint differs
\* from the stored one, stays the same in a pass whose fingerprint is
\* equal, and no other step touches it.
C12_VersionDiscipline ==
    /\ [](DOMAIN opened \subseteq syncCalled)
    /\ [][\A p \in Paths :
            LET T == {t \in Callers : PassesSection(t) /\ doc[t].path = p}
            IN IF T = {}
               THEN /\ (p \in DOMAIN opened') = (p \in DOMAIN opened)
                    /\ p \in DOMAIN opened => opened'[p] = opened[p]
               ELSE \A t \in T :
                      LET h == ContentHash(doc[t].text)
                      IN /\ p \in DOMAIN opened'
                         /\ opened'[p].hash = h
                         /\ IF p \notin DOMAIN opened
                            THEN opened'[p].version = 0
                            ELSE IF opened[p].hash = h
                                 THEN opened'[p].version = opened[p].version
                                 ELSE opened'[p].version = opened[p].version + 1
         ]_vars

\* One path is at version 1 after an edit and a further call left it
\* there, while the other path was never synced and has no record.
C12_Witness ==
    \E p \in Paths :
       /\ p \in DOMAIN opened
       /\ opened[p].version = 1
       /\ syncLog # <<>>
       /\ syncLog[Len(syncLog)].path = p
       /\ syncLog[Len(syncLog)].sent = "none"
       /\ \E q \in Paths : q \notin syncCalled /\ q \notin DOMAIN opened

\* C13: for every path at most one pass observes first access and at most
\* one didOpen is written to the pipe.
C13_SingleDidOpen ==
    \A p \in Paths :
       /\ Cardinality({i \in SentPasses(p) : syncLog[i].sent = "didOpen"}) <= 1
       /\ Cardinality({k \in DocBodies(p) : wire[k].op = "didOpen"}) <= 1

\* Two callers went through the section for the same path while the first
\* of them had not yet sent its didOpen.
C13_Witness ==
    /\ Len(syncLog) >= 2
    /\ syncLog[1].path = syncLog[2].path
    /\ syncLog[1].by # syncLog[2].by
    /\ syncLog[1].sent = "didOpen"
    /\ pc[syncLog[1].by] = "send_check"
    /\ op[syncLog[1].by] = "didOpen"

\* C14: the notifications for one path are on the pipe in the order their
\* versions were assigned.
C14_WireOrderFollowsVersions ==
    \A p \in Paths :
       \A k1, k2 \in DocBodies(p) :
          k1 < k2 => wire[k1].arg.version < wire[k2].arg.version

----------------------------------------------------------------------------
\* Shutdown

\* What shutdown() has done so far is a prefix of: the request attempt,
\* the exit attempt, the outcome of the wait, and a kill, sent or failed,
\* after a timeout.
TraceShape(tr) ==
    /\ Len(tr) <= 4
    /\ Len(tr) >= 1 => tr[1] \in {"req_ok", "req_err"}
    /\ Len(tr) >= 2 => tr[2] \in {"note_ok", "note_err"}
    /\ Len(tr) >= 3 => tr[3] \in {"exited", "wait_err", "timeout"}
    /\ Len(tr) = 4 => tr[3] = "timeout" /\ tr[4] \in {"kill", "kill_err"}

\* C15: shutdown() attempts the shutdown request, then the exit
\* notification whatever the request did, then waits for the child, and
\* calls kill exactly when the wait timed out with the child still
\* running; it never returns before the wait, whatever failed before, and
\* after a timeout it returns only once kill has been called: with the
\* kill sent, only after the dead child has been waited for.
C15_ShutdownOrder ==
    /\ [](/\ TraceShape(shutTrace)
          /\ shut = "request"  => Len(shutTrace) = 0
          /\ shut = "notify"   => Len(shutTrace) = 1
          /\ shut = "wait"     => Len(shutTrace) = 2
          /\ shut = "kill"     => Len(shutTrace) = 3 /\ shutTrace[3] = "timeout"
          /\ shut = "reap"     =>
                /\ Len(shutTrace) = 4
                /\ shutTrace[4] = "kill"
                /\ killIssued
                /\ child \in {"exited", "killed"}
          /\ shut = "returned" =>
                /\ Len(shutTrace) >= 3
                /\ shutTrace[3] = "timeout" =>
                      /\ Len(shutTrace) = 4
                      /\ killIssued
                      /\ shutTrace[4] = "kill" => child \in {"exited", "killed"})
    /\ [][/\ shut = "wait" /\ shut' = "kill" => child = "running"
          /\ killIssued' # killIssued => shut = "kill"
          /\ child' = "killed" /\ child # "killed" => shut = "kill"
          /\ shut = "kill" /\ shut' # "kill" =>
                /\ killIssued'
                /\ \/ shut' = "reap" /\ child' \in {"exited", "killed"}
                   \/ shut' = "returned" /\ child' = child
                         /\ shutTrace'[4] = "kill_err"
          /\ shut' = "returned" /\ shut # "returned" =>
                shut \in {"wait", "kill", "reap"}
          /\ \A o \in {"shutdown", "exit"} :
               Len(wire') > Len(wire) /\ wire'[Len(wire')].op = o
                  => shut = (IF o = "shutdown" THEN "request" ELSE "notify")
         ]_vars

\* The shutdown request and the exit notification both failed, the child
\* did not exit within the grace period and was killed.
C15_Witness ==
    /\ shut = "returned"
    /\ shutTrace = <<"req_err", "note_err", "timeout", "kill">>
    /\ child = "killed"

\* C16: a shutdown() that begins with the liveness flag false writes
\* nothing to the pipe and still runs through to its end; every
\* shutdown(), the first or a later one, returns with no entry of its own
\* in the pending map.
C16_ShutdownSafeWhenDead ==
    /\ [](shut = "returned" =>
             /\ \A k \in DOMAIN pending : pending[k] # Ctor
             /\ shutDead => /\ shutTrace[1] = "req_err"
                            /\ shutTrace[2] = "note_err"
                            /\ Len(shutTrace) >= 3)
    /\ [][shutDead /\ shut \notin {"idle", "returned"}
             => {i \in 1..Len(wire') : wire'[i].by = Ctor} = WrittenBy(Ctor)
         ]_vars

\* A second shutdown() returned, and the flag was false when it began.
C16_Witness ==
    /\ nshut = 2
    /\ shut = "returned"
    /\ shutDead
    /\ ~alive

\* C17: when shutdown() has returned, the child has exited or a kill has
\* been issued.
C17_ReturnedMeansTerminated ==
    shut = "returned" => child \in {"exited", "killed"} \/ killIssued

----------------------------------------------------------------------------
\* Session life cycle

\* The edges of the session state machine.
SessionEdges ==
    { <<"Starting", "Handshaking">>, <<"Handshaking", "Ready">>,
      <<"Ready", "ShuttingDown">>, <<"ShuttingDown", "Terminated">>,
      <<"Starting", "Terminated">>, <<"Handshaking", "Terminated">>,
      <<"Ready", "Terminated">> }

\* C18: the session moves only along Starting -> Handshaking -> Ready ->
\* ShuttingDown -> Terminated and the failure edges into Terminated; it
\* leaves Ready for ShuttingDown only in the step that begins shutdown()
\* and for Terminated only in the step where the exited reader clears the
\* liveness flag; the flag, once false, stays false and a request begun
\* after that never returns Ok.
C18_SessionStateMachine ==
    [][LET a == Session
           b == SessionOf(ctor', shut', alive')
       IN /\ a # b => <<a, b>> \in SessionEdges
          /\ a = "Ready" /\ b = "ShuttingDown" =>
                shut' = "request" /\ nshut' = nshut + 1
          /\ a = "Ready" /\ b = "Terminated" =>
                reader = "exited" /\ reader' = "flagged" /\ alive /\ ~alive'
          /\ ~alive => ~alive'
          /\ \A t \in Tasks : deadAtStart'[t] => outcome'[t] # "ok"
      ]_vars

----------------------------------------------------------------------------
\* Recoverable failures

\* Task t takes a step of a request that fails on its own: the timeout
\* fires, the timed-out request removes its entry and returns, or the
\* response read carries an error member.
LocalFailureStep(t) ==
    \/ pc[t] = "await" /\ pc'[t] = "abandon" /\ outcome'[t] = "timeout"
    \/ pc[t] = "abandon" /\ pc'[t] = "done" /\ outcome[t] = "timeout"
    \/ pc[t] = "await" /\ pc'[t] = "done" /\ outcome'[t] = "lsp_error"

\* The step leaves the flag, the reader and everything of the tasks other
\* than t as they were.
OthersUntouched(t) ==
    /\ alive' = alive
    /\ reader' = reader
    /\ \A k \in DOMAIN pending :
          pending[k] # t => k \in DOMAIN pending' /\ pending'[k] = pending[k]
    /\ \A u \in Tasks \ {t} :
          rx'[u] = rx[u] /\ pc'[u] = pc[u] /\ outcome'[u] = outcome[u]

\* C19: a step in which a request times out or returns an error payload
\* changes nothing but that request: the flag stays as it is, the reader
\* keeps its position, every pending entry and receiver of another task
\* is kept.  A response without a matching entry changes nothing at all,
\* and a response that is delivered takes only its own entry out of the
\* map and fills only its own receiver.
C19_LocalFailuresAreLocal ==
    [][/\ \A t \in Tasks : LocalFailureStep(t) => OthersUntouched(t)
       /\ lastDisp'.to = "unmatched" =>
             /\ alive' = alive /\ reader' = reader
             /\ pending' = pending /\ rx' = rx
             /\ pc' = pc /\ outcome' = outcome
       /\ lastDisp'.to \in Tasks =>
             /\ alive' = alive /\ reader' = reader
             /\ pending' = MapRemove(pending, lastDisp'.id)
             /\ \A u \in Tasks \ {lastDisp'.to} : rx'[u] = rx[u]
      ]_vars

\* One caller's request timed out and returned while the request of the
\* other caller, allocated before it, was in flight; that request has now
\* been handed the response with its own id, in a live session.
C19_Witness ==
    \E t, u \in Callers :
       /\ Returned(t, "timeout")
       /\ id[u] < id[t]
       /\ pc[u] = "await"
       /\ rx[u].st = "full"
       /\ rx[u].msg.id = id[u]
       /\ alive
       /\ reader = "loop"

----------------------------------------------------------------------------
\* Responses

\* C20: request() returning on its response returns an Err with the error
\* payload when the response has an error member, with or without a
\* result member; without an error member it returns the deserialized
\* result member, null standing in for a missing one; the response is the
\* one with the request's own id, and the step changes neither the flag,
\* the reader, the pending map nor any other task.
C20_ErrorAndResultMembers ==
    [][\A t \in Tasks :
          pc[t] = "await" /\ pc'[t] = "done" =>
             LET kind == rx[t].msg.kind
             IN /\ rx[t].msg.id = id[t]
                /\ kind \in {"error", "both"} => outcome'[t] = "lsp_error"
                /\ kind = "ok" => outcome'[t] = "ok"
                /\ kind = "absent" =>
                      outcome'[t] = (IF op[t] = "initialize" THEN "deser_err"
                                                           ELSE "ok")
                /\ kind = "bad" => outcome'[t] = "deser_err"
                /\ alive' = alive /\ reader' = reader /\ pending' = pending
                /\ \A u \in Tasks \ {t} :
                      rx'[u] = rx[u] /\ pc'[u] = pc[u] /\ outcome'[u] = outcome[u]
      ]_vars

\* One caller got an Err for a response carrying both members; a request
\* allocated after that one has been answered without either member and
\* returned Ok, the reader still running.
C20_Witness ==
    \E t, u \in Callers :
       /\ Returned(t, "lsp_error")
       /\ rx[t].msg.kind = "both"
       /\ id[t] < id[u]
       /\ Returned(u, "ok")
       /\ rx[u].msg.kind = "absent"
       /\ alive
       /\ reader = "loop"

----------------------------------------------------------------------------
\* Framing

\* The reader task takes a step of reader_loop.
ReaderStep == reader = "loop" /\ (rpos' # rpos \/ rstage' # rstage \/ reader' # reader)

\* The line the header loop reads next is the blank line ending the headers.
AtBlankLine ==
    /\ rstage = "headers"
    /\ LineAt(inp, rpos) # <<>>
    /\ IsUtf8(LineAt(inp, rpos))
    /\ Trim(LineAt(inp, rpos)) = <<>>

\* Once the reader task has gone through its exit path the flag is false
\* and the pending map is empty.
ExitCleanupDone ==
    /\ reader \in {"flagged", "done"} => ~alive
    /\ reader = "done" => pending = EmptyMap

\* C21: at the end of the headers a declared length above the maximum ends
\* reader_loop with an error, without allocating a body and without
\* reading a byte past the headers; a declared length equal to the maximum
\* goes on to the body; bodies are only ever allocated for accepted
\* lengths; after the exit path the flag is false and the map is empty.
C21_OversizeRejected ==
    /\ [](rstage = "body" => rlen >= 0 /\ rlen <= MaxMessageSize)
    /\ [](ExitCleanupDone)
    /\ [][/\ ReaderStep /\ AtBlankLine /\ rlen > MaxMessageSize =>
               /\ reader' = "exited" /\ readerResult' = "err"
               /\ ralloc' = ralloc
               /\ rpos' = rpos + Len(LineAt(inp, rpos))
               /\ rstage' = "headers"
          /\ ReaderStep /\ AtBlankLine /\ rlen = MaxMessageSize =>
               reader' = "loop" /\ rstage' = "body"
          /\ ralloc' # ralloc =>
               /\ AtBlankLine /\ rlen >= 0 /\ rlen <= MaxMessageSize
               /\ rstage' = "body" /\ ralloc' = ralloc + rlen
         ]_vars

\* The first piece announced one byte more than the maximum: the reader
\* stopped right after its headers with an error, allocated nothing, and
\* its exit path cleared the flag and closed the request in flight.
C21_Witness ==
    /\ src # <<>>
    /\ src[1] = RawPiece(FrameHeader(MaxMessageSize + 1) \o <<120>>)
    /\ rlen = MaxMessageSize + 1
    /\ reader = "done"
    /\ readerResult = "err"
    /\ ralloc = 0
    /\ rpos = Len(FrameHeader(MaxMessageSize + 1))
    /\ ~alive
    /\ pending = EmptyMap
    /\ rx["c1"].st = "closed"

\* Every piece of the output is a frame written by the sender's framing.
AllFramed == \A i \in 1..Len(src) : src[i].val # NoJson

\* C22: when the stream is a sequence of frames written back to back by
\* the sender's framing, the reader recovers, frame by frame, exactly the
\* body bytes and the message that were framed, never fails, and ends at
\* the end of the stream having recovered all of them.
C22_FrameRoundTrip ==
    AllFramed =>
       /\ Len(got) <= Len(src)
       /\ \A i \in 1..Len(got) :
             /\ got[i].body = JsonText(src[i].val)
             /\ got[i].val = src[i].val
       /\ readerResult # "err"
       /\ reader # "loop" => Len(got) = Len(src) /\ rpos = Len(inp)

\* Two frames back to back, the first with a two-byte character in its
\* body, the second an object of two members, both recovered, the reader
\* ended by the end of the stream.
C22_Witness ==
    /\ Len(src) = 2
    /\ AllFramed
    /\ src[1].val = [idt |-> "int", id |-> 2, kind |-> "ok"]
    /\ CharCount(JsonText(src[1].val)) < Len(JsonText(src[1].val))
    /\ src[2].val = [idt |-> "int", id |-> 2, kind |-> "error"]
    /\ Len(got) = 2
    /\ got[2].val = src[2].val
    /\ readerResult = "eof"

\* A whole body is there to be read, and the message it parses to.
AtBody ==
    /\ rstage = "body"
    /\ Len(inp) - rpos >= rlen

BodyValue == ParseJson(SubSeq(inp, rpos + 1, rpos + rlen))

\* The message the reader has read and is about to look up in the map.
InHand == got[Len(got)].val

\* C28: a message whose integer id has no entry in the pending map when
\* the reader looks it up, be it that there never was one or that the
\* caller has taken it out since the message was read, is discarded: the
\* map, the flag, every receiver and every caller stay as they were, and
\* the reader is back at the headers of the next frame.
C28_UnmatchedDiscarded ==
    [][/\ (ReaderStep /\ rstage = "dispatch" /\ InHand.id \notin DOMAIN pending)
                => lastDisp' = [id |-> InHand.id, to |-> "unmatched"]
       /\ lastDisp'.to = "unmatched" =>
             /\ pending' = pending /\ alive' = alive /\ rx' = rx
             /\ pc' = pc /\ outcome' = outcome
             /\ reader' = "loop" /\ rstage' = "headers" /\ rlen' = -1
      ]_vars

\* A response with an id nobody waits for was read and discarded, and the
\* frame after it was read and handed to the caller waiting for it.
C28_Witness ==
    /\ Len(got) = 2
    /\ got[1].val = [idt |-> "int", id |-> 3, kind |-> "absent"]
    /\ got[2].val = [idt |-> "int", id |-> 2, kind |-> "ok"]
    /\ lastDisp = [id |-> 2, to |-> "c1"]
    /\ rx["c1"].st = "full"
    /\ alive

\* C29: a message without an integer id is logged as a notification: the
\* map, the flag, every receiver and every caller stay as they were, and
\* the reader is back at the headers of the next frame.
C29_NotificationDiscarded ==
    [][/\ (ReaderStep /\ AtBody /\ BodyValue # NoJson /\ BodyValue.idt # "int")
                => lastDisp'.to = "notification"
       /\ lastDisp'.to = "notification" =>
             /\ pending' = pending /\ alive' = alive /\ rx' = rx
             /\ pc' = pc /\ outcome' = outcome
             /\ reader' = "loop" /\ rstage' = "headers" /\ rlen' = -1
      ]_vars

\* A notification was read while the caller's request was pending; the
\* request is still pending and the next frame is being read.
C29_Witness ==
    /\ Len(got) = 1
    /\ got[1].val = [idt |-> "none", id |-> 0, kind |-> "note"]
    /\ lastDisp.to = "notification"
    /\ 2 \in DOMAIN pending
    /\ rx["c1"].st = "empty"
    /\ Len(src) = 2
    /\ reader = "loop"
    /\ alive

\* C30: a zero-byte read in the header loop ends reader_loop with Ok,
\* whether or not header lines of a frame were read before it; the end of
\* the stream inside a body ends it with an error; after the exit path the
\* flag is false and the map is empty.
C30_EndOfStream ==
    /\ [](ExitCleanupDone)
    /\ [][/\ ReaderStep /\ rstage = "headers" /\ rpos = Len(inp) =>
               reader' = "exited" /\ readerResult' = "eof"
          /\ ReaderStep /\ rstage = "body" /\ Len(inp) - rpos < rlen =>
               reader' = "exited" /\ readerResult' = "err"
         ]_vars

\* The stream ended after a Content-Length line and before the blank
\* line: the reader ended with Ok and its exit path ran.
C30_Witness ==
    /\ src = <<RawPiece(ContentLengthPrefix \o Digits(7) \o CrLf)>>
    /\ rlen = 7
    /\ readerResult = "eof"
    /\ reader = "done"
    /\ ~alive
    /\ pending = EmptyMap

\* The encoding of one byte as the URI rules state it: the letters, the
\* digits and - _ . ~ / stand for themselves, any other byte is % and its
\* two hexadecimal digits in upper case.
HexDigits == <<48, 49, 50, 51, 52, 53, 54, 55, 56, 57, 65, 66, 67, 68, 69, 70>>

Copied(b) ==
    b \in (48..57) \cup (65..90) \cup (97..122) \cup {45, 95, 46, 126, 47}

Escaped(b) ==
    IF Copied(b) THEN <<b>>
    ELSE <<37, HexDigits[(b \div 16) + 1], HexDigits[(b % 16) + 1]>>

RECURSIVE EscapedPath(_)
EscapedPath(path) ==
    IF path = <<>> THEN <<>> ELSE Escaped(path[1]) \o EscapedPath(Tail(path))

\* C23: for every absolute path, with spaces, percent signs and other
\* reserved bytes in it, file_uri accepts the path and uri_to_path of the
\* URI is the path again.
C23_UriRoundTrip ==
    /\ (ustage # "input" /\ PathIsAbsolute(upath)) => uuri.ok
    /\ ustage = "decoded" => uback = upath

C23_Witness ==
    /\ ustage = "decoded"
    /\ upath = <<47, 37, 52, 65>>
    /\ uback = upath
    /\ uuri.bytes # FileScheme \o upath

\* C24: file_uri rejects every path that is not absolute, and for an
\* absolute path gives file:// followed by the path with every byte other
\* than the ASCII letters, the digits and - _ . ~ / replaced by % and two
\* uppercase hexadecimal digits, the other bytes copied.
C24_FileUriEncoding ==
    ustage # "input" =>
        IF upath # <<>> /\ Head(upath) = 47
        THEN uuri.ok /\ uuri.bytes = FileScheme \o EscapedPath(upath)
        ELSE ~uuri.ok /\ ustage = "rejected"

C24_Witness ==
    /\ ustage = "encoded"
    /\ upath = <<47, 32, 195, 169>>
    /\ uuri.bytes = FileScheme \o <<47, 37, 50, 48, 37, 67, 51, 37, 65, 57>>

\* The decimal numeral that follows a numeral: the successor of the number
\* it denotes, without a bound on its size.
RECURSIVE Successor(_)
Successor(ds) ==
    IF ds = <<>> THEN <<1>>
    ELSE IF ds[Len(ds)] < 9
         THEN SubSeq(ds, 1, Len(ds) - 1) \o <<ds[Len(ds)] + 1>>
         ELSE Successor(SubSeq(ds, 1, Len(ds) - 1)) \o <<0>>

\* C26: for every zero-indexed position (line, character) on the wire, over
\* the whole range of u32, the report of a location or of a diagnostic shows
\* the numbers line + 1 and character + 1.
C26_OneIndexed ==
    fstage = "printed" =>
        /\ ~fout.panic
        /\ fout.line = Successor(Decimal(fpos.line))
        /\ fout.character = Successor(Decimal(fpos.character))

\* A task is inside request(), past the insert and before the return.
Between(t) ==
    /\ IsRequestOp(op[t])
    /\ pc[t] \in {"send_check", "send_lock", "send_hdr", "send_body",
                  "send_flush", "await", "abandon"}

\* C27: every key of the pending map is the id of exactly one request()
\* call that is past its insert and has not returned, the entry belongs to
\* that call, and once a request() call has returned, by a response, an
\* error response, a send failure, a closed channel or a timeout, its id is
\* not in the map.
C27_PendingEntries ==
    /\ \A k \in DOMAIN pending :
         /\ Cardinality({t \in Tasks : Between(t) /\ id[t] = k}) = 1
         /\ Between(pending[k]) /\ id[pending[k]] = k
    /\ \A t \in Tasks :
         (pc[t] = "done" /\ IsRequestOp(op[t])) => id[t] \notin DOMAIN pending

\* One request returned with its response, one timed out; neither id is in
\* the map.
C27_Witness ==
    /\ Returned("c1", "ok")
    /\ Returned("c2", "timeout")
    /\ pending = EmptyMap
    /\ id["c1"] # id["c2"]

\* The chunks task t wrote since its tool call began that belong to a
\* request, and those that belong to a notification.
RequestChunks(t) ==
    {i \in (tmark[t] + 1)..Len(wire) : wire[i].by = t /\ wire[i].id # 0}

NotifyChunks(t) ==
    {i \in (tmark[t] + 1)..Len(wire) : wire[i].by = t /\ wire[i].id = 0}

InEnsure(t) ==
    \/ pc[t] \in {"sync_read", "sync_lock"}
    \/ op[t] \in {"didOpen", "didChange"} /\ pc[t] \notin {"idle", "done"}

InRequest(t) == pc[t] = "insert" \/ Between(t)

\* C25: each of the four tools validates the path, then calls
\* ensure_file_open for that path, and only then issues the request of its
\* own method; when the validation or ensure_file_open fails the tool
\* returns an error and has written no request frame for that call.
C25_ToolOrder ==
    \A t \in ToolTasks :
        /\ tstage[t] \in {"sync", "request"} => ValidFilePath(tpath[t])
        /\ InEnsure(t) => tstage[t] = "sync" /\ doc[t].path = tpath[t]
        /\ InRequest(t) =>
             /\ tstage[t] = "request"
             /\ op[t] = ToolMethod(tool[t])
        /\ tstage[t] = "request" =>
             /\ OpenedOk(syncRes[t])
             /\ tpath[t] \in syncCalled
        /\ \A i \in RequestChunks(t) :
             /\ wire[i].op = ToolMethod(tool[t])
             /\ OpenedOk(syncRes[t])
             /\ \A j \in NotifyChunks(t) : j < i
        /\ (tstage[t] = "returned" /\ tres[t] \in {"invalid_params", "open_failed"})
             => RequestChunks(t) = {}
        /\ (tstage[t] = "returned" /\ tres[t] = "invalid_params")
             => NotifyChunks(t) = {}

\* A second tool call failed in ensure_file_open and wrote no request,
\* after a first one that sent didOpen and then its request.
C25_Witness ==
    /\ tstage["c1"] = "returned"
    /\ tres["c1"] = "open_failed"
    /\ tool["c1"] = "hover"
    /\ RequestChunks("c1") = {}
    /\ \E i, j \in 1..tmark["c1"] :
         /\ i < j
         /\ wire[i].op = "didOpen" /\ wire[i].by = "c1"
         /\ wire[j].op = "textDocument/diagnostic" /\ wire[j].by = "c1"

\* The Content-Length lines whose value is no non-negative integer.
BadLengthLines ==
    { ContentLengthPrefix \o <<120>> \o CrLf,
      ContentLengthPrefix \o <<45, 49>> \o CrLf }

\* Bodies that are no JSON: x
NonJsonBodies == {<<120>>}

\* The reader is about to meet a malformed frame: the blank line of a
\* header block without a length, a length that is no number, or a
\* complete body that is no JSON.
AtMalformed ==
    \/ AtBlankLine /\ rlen = -1
    \/ rstage = "headers" /\ LineAt(inp, rpos) \in BadLengthLines
    \/ /\ rstage = "body"
       /\ Len(inp) - rpos >= rlen
       /\ SubSeq(inp, rpos + 1, rpos + rlen) \in NonJsonBodies

\* C31: a frame without a Content-Length line, with a Content-Length that
\* is no non-negative integer, or with a body that is no JSON ends the
\* reader loop with an error; after the exit path the flag is false, the
\* map holds only entries of requests about to fail and abandon them, no
\* request is left waiting on an open slot, a waiting request is answered
\* only by what was read before, and a request begun once the flag is cleared fails at the
\* liveness check: it writes nothing and returns the send error.
C31_MalformedFrameFails ==
    /\ [](reader \in {"flagged", "done"} => ~alive)
    /\ [](reader = "done" =>
            \A k \in DOMAIN pending : pc[pending[k]] \in {"send_check", "abandon"})
    /\ [](\A t \in Callers :
            /\ (reader = "done" /\ pc[t] = "await") => rx[t].st \in {"closed", "full"}
            /\ rx[t].st = "full" =>
                 \E i \in 1..Len(got) : got[i].val.idt = "int" /\ got[i].val.id = id[t]
            /\ deadAtStart[t] =>
                 /\ pc[t] \notin {"send_lock", "send_hdr", "send_body",
                                  "send_flush", "await"}
                 /\ pc[t] = "done" => outcome[t] = "send_err"
                 /\ \A i \in 1..Len(wire) : wire[i].by = t => wire[i].id # id[t])
    /\ [][(ReaderStep /\ AtMalformed) =>
              reader' = "exited" /\ readerResult' = "err"]_vars

\* A header block without a length ended the reader with an error: the
\* request in flight failed on its closed slot and a request made
\* afterwards failed at the liveness check.
C31_Witness ==
    /\ src = <<RawPiece(<<88, 58, 32, 49>> \o CrLf \o CrLf)>>
    /\ reader = "done"
    /\ readerResult = "err"
    /\ Returned("c1", "closed")
    /\ deadAtStart["c2"]
    /\ Returned("c2", "send_err")

\* The record of path q, or its absence.
RecordOf(m, q) == IF q \in DOMAIN m THEN <<"some", m[q]>> ELSE <<"none">>

\* C32: a call of ensure_file_open for p changes only the record of p: at
\* every step the records of all paths but one are as before, and the one
\* that changed belongs to the path of a call that is in the section under
\* the lock, whatever calls for other paths are under way.
C32_OtherRecordsUntouched ==
    [][\A q \in Paths :
          RecordOf(opened', q) # RecordOf(opened, q) =>
              /\ \E t \in Callers : pc[t] = "sync_lock" /\ doc[t].path = q
                                    /\ pc'[t] = "send_check"
              /\ \A r \in Paths \ {q} : RecordOf(opened', r) = RecordOf(opened, r)
      ]_vars

\* Two calls for different paths were under way together; the record of one
\* path went to version 1 while the other stayed at version 0.
C32_Witness ==
    /\ DOMAIN opened = Paths
    /\ opened[<<"/", "a">>].version = 1
    /\ opened[<<"/", "b">>].version = 0
    /\ \E i, j, k \in 1..Len(syncLog) :
         /\ i < j /\ j < k
         /\ syncLog[i].path = <<"/", "a">>
         /\ syncLog[j].path = <<"/", "b">>
         /\ syncLog[k].path = <<"/", "a">> /\ syncLog[k].sent = "didChange"

\* Task t has written a chunk of the frame of its current request.
FrameOnWire(t) ==
    \E i \in 1..Len(wire) : wire[i].by = t /\ wire[i].id = id[t]

\* Task t is inside request() with its slot registered and still open: it
\* has not been answered and has not given up.
StillWaiting(t) ==
    /\ IsRequestOp(op[t])
    /\ pc[t] \in {"send_check", "send_lock", "send_hdr", "send_body",
                  "send_flush", "await"}
    /\ rx[t].st = "empty"

\* C33: request() puts the slot for id k into the pending map before any
\* byte of the frame carrying k is written, so a response to k that the
\* reader reads while the caller is still waiting finds the entry and is
\* delivered to that caller, never dropped as unmatched.
C33_InsertBeforeWrite ==
    /\ [](\A t \in Tasks :
            (IsRequestOp(op[t]) /\ pc[t] \in {"idle", "insert"}) => ~FrameOnWire(t))
    /\ [](\A t \in Tasks :
            (StillWaiting(t) /\ reader = "loop") =>
                id[t] \in DOMAIN pending /\ pending[id[t]] = t)
    /\ [][\A t \in Tasks :
            (Len(wire') > Len(wire) /\ wire'[Len(wire')].by = t
                /\ wire'[Len(wire')].id # 0) =>
                /\ wire'[Len(wire')].id = id[t]
                /\ rx[t].st # "none"
                /\ (reader = "loop" /\ rx[t].st = "empty") => id[t] \in DOMAIN pending
         ]_vars
    /\ [][\A t \in Tasks :
            (StillWaiting(t) /\ FrameOnWire(t) /\ lastDisp'.id = id[t]) =>
                /\ lastDisp'.to = t
                /\ rx'[t].st = "full"
         ]_vars

\* The response to a request was read and delivered while the caller was
\* still inside send_message, before it began to wait.
C33_Witness ==
    \E t \in Callers :
        /\ pc[t] = "send_flush"
        /\ FrameOnWire(t)
        /\ lastDisp = [id |-> id[t], to |-> t]
        /\ rx[t].st = "full"

\* The locks task t holds.
Held(t) == {l \in Locks : holder[l] = t}

\* C34: no task holds two of the client's locks at once, the reader task
\* holds no lock but that of the pending map, a task that holds a lock is
\* not waiting for another, and so whenever a task waits for a lock that is
\* taken, the task holding it can take a step: no interleaving of request,
\* notify, ensure_file_open, shutdown and the reader deadlocks on the locks.
C34_LockDiscipline ==
    /\ \A t \in LockTasks : Cardinality(Held(t)) <= 1
    /\ Held(Reader) \subseteq {"pending"}
    /\ \A t \in LockTasks : \A l \in Held(t) :
         lpc[t] \notin WaitPositions /\ LockAt(lpc[t]) = l
    /\ \A t \in LockTasks :
         lpc[t] \in WaitPositions =>
            \/ holder[LockAt(lpc[t])] = "free"
            \/ ENABLED LockStep(holder[LockAt(lpc[t])])

\* All four locks are held at once, by four tasks, and none of them waits.
C34_Witness ==
    /\ holder["pending"] = Reader
    /\ holder["child_stdin"] = "c1"
    /\ holder["opened_files"] = "c2"
    /\ holder["child"] = Ctor

\* The body of a didOpen for path p is on the pipe.
DidOpenOnWire(p) ==
    \E k \in 1..Len(wire) :
        wire[k].op = "didOpen" /\ wire[k].part = "body" /\ wire[k].arg.path = p

\* C35: ensure_file_open commits the record before it sends and keeps it
\* when the send fails: a call whose notification failed leaves the record
\* of its path in place; a call that finds the record with the fingerprint
\* of the content returns success without sending, and one that finds it
\* with another fingerprint sends didChange with the next version, whether
\* or not the didOpen ever reached the pipe.
C35_NoRollbackOnSendFailure ==
    [][\A t \in Callers :
          /\ (pc[t] = "notify_err" /\ pc'[t] = "done") =>
                /\ syncRes'[t] = "send_err"
                /\ opened' = opened
                /\ arg[t].path \in DOMAIN opened
                /\ opened[arg[t].path].version >= arg[t].version
          /\ (pc[t] = "sync_lock" /\ pc'[t] # "sync_lock"
                 /\ doc[t].path \in DOMAIN opened) =>
                IF opened[doc[t].path].hash = ContentHash(doc[t].text)
                THEN /\ pc'[t] = "done" /\ syncRes'[t] = "unchanged"
                     /\ opened' = opened /\ wire' = wire
                ELSE /\ pc'[t] = "send_check" /\ op'[t] = "didChange"
                     /\ arg'[t].version = opened[doc[t].path].version + 1
                     /\ opened'[doc[t].path] =
                          [version |-> opened[doc[t].path].version + 1,
                           hash |-> ContentHash(doc[t].text)]
      ]_vars

\* The didOpen of a path failed to send and never reached the pipe; a
\* second call with the same content returned success without sending, and
\* a third, after an edit, decided on didChange.
C35_Witness ==
    /\ Len(syncLog) = 3
    /\ \A i \in 1..3 : syncLog[i].path = <<"/", "a">>
    /\ syncLog[1].sent = "didOpen"
    /\ syncLog[2].sent = "none"
    /\ syncLog[3].sent = "didChange" /\ syncLog[3].version = 1
    /\ ~DidOpenOnWire(<<"/", "a">>)
    /\ ~stdinOpen

\* C36: the reader classifies a message by its integer id alone: a message
\* with an integer id, be it a request of the server with a method member,
\* takes the entry of that id out of the map and goes to the waiting caller
\* as its response (it is dropped when the caller has stopped waiting), and
\* the caller returns as for a response without result or error; a message whose id is no integer (a string) is treated as a
\* notification and resolves nothing.
C36_ClassifiedByIntegerId ==
    /\ [](\A t \in Callers :
            (pc[t] = "done" /\ rx[t].st = "full" /\ rx[t].msg.kind = "request"
                /\ op[t] = "query") => outcome[t] = "ok")
    /\ [][/\ (ReaderStep /\ AtBody /\ BodyValue # NoJson) =>
               /\ pending' = pending
               /\ rx' = rx
               /\ IF BodyValue.idt = "int"
                  THEN /\ rstage' = "dispatch"
                       /\ got'[Len(got')].val = BodyValue
                  ELSE /\ rstage' = "headers"
                       /\ lastDisp'.to = "notification"
          /\ (ReaderStep /\ rstage = "dispatch") =>
               IF InHand.id \in DOMAIN pending
               THEN /\ pending' = MapRemove(pending, InHand.id)
                    /\ IF rx[pending[InHand.id]].st = "empty"
                       THEN /\ lastDisp' = [id |-> InHand.id,
                                            to |-> pending[InHand.id]]
                            /\ rx'[pending[InHand.id]] =
                                 [st |-> "full",
                                  msg |-> [id |-> InHand.id,
                                           kind |-> InHand.kind]]
                       ELSE /\ lastDisp' = [id |-> InHand.id, to |-> "gone"]
                            /\ rx' = rx
               ELSE /\ lastDisp' = [id |-> InHand.id, to |-> "unmatched"]
                    /\ pending' = pending /\ rx' = rx
         ]_vars

\* A message with the string id "2" left the request with id 2 pending; the
\* server's own request with the integer id 2 was then handed to the caller,
\* which returned with it.
C36_Witness ==
    /\ Len(got) = 2
    /\ got[1].val = [idt |-> "str", id |-> 0, kind |-> "bad"]
    /\ got[2].val = [idt |-> "int", id |-> 2, kind |-> "request"]
    /\ rx["c1"].msg = [id |-> 2, kind |-> "request"]
    /\ Returned("c1", "ok")
    /\ pending = EmptyMap

====
